---- MODULE Spec2Model ----
(***************************************************************************)
(* Deployment orchestrator of CloudOps-toolkit (app/deploy_trigger.py):    *)
(* the wrappers around the external terraform process, their result        *)
(* values, and the ANSI sanitizer.                                         *)
(*                                                                         *)
(* Text is a sequence of character codes, so that the sanitizer, the fixed *)
(* messages of the code and the tool's output live in one domain and can   *)
(* be compared.  The Python value None is the sequence <<-1>>, which is no *)
(* text.                                                                   *)
(***************************************************************************)
EXTENDS Integers, Sequences, FiniteSets, TLC

VARIABLES
    pc,        \* per caller: "idle", "running" (blocked in subprocess.run), "done"
    op,        \* per caller: the operation being executed, or "none"
    action,    \* per caller: the argument of trigger_terraform, or "none"
    proc,      \* per caller: the child process: "none", "running", "exited", "killed"
    argv,      \* per caller: the command line subprocess.run was given
    runs,      \* per caller: subprocess.run invocations made by the current call
    outcome,   \* per caller: what subprocess.run produced for the current call
    result,    \* per caller: the value returned to the caller
    raised,    \* per caller: the exception that left the operation, or "none"
    sIn,       \* sanitizer run: the input text
    sOut,      \* sanitizer run: strip_ansi_codes(sIn), once computed
    sOut2,     \* sanitizer run: strip_ansi_codes(sOut), once computed
    sPhase,    \* sanitizer run: number of applications done (0, 1, 2)
    tfplan,    \* working directory: the plan artifact 'tfplan' exists
    deployed,  \* working directory: resources in the tool's state file
    scenario,  \* steps of the end-to-end scenario completed in a row (0..6)
    ec2Api,    \* inventory: what the EC2 client and describe_instances produce
    s3Api,     \* inventory: what the S3 client, list_buckets and the lookups produce
    ec2Result, \* inventory: the value list_ec2_instances returned
    s3Result,  \* inventory: the value list_s3_buckets returned
    summary,   \* inventory: the value get_resource_summary returned
    ceApi,     \* costs: what the Cost Explorer client and get_cost_and_usage produce
    costResult,    \* costs: the value get_cost_by_service returned
    logsApi,       \* logs: what the CloudWatch Logs client and its calls produce
    logsResult,    \* logs: the value get_logs returned
    session_state, \* Deploy page: st.session_state of the browser session
    dpc,           \* Deploy page: where the script run is, "shown" between runs
    pressed,       \* Deploy page: the button whose press started the run
    rendered,      \* Deploy page: the buttons on the page
    rerunRequested,    \* Deploy page: the widget the user touched during the run
    flagAtStart,   \* Deploy page: destroy_confirmed when the run started
    armed,         \* Deploy page: Destroy was pressed since the last destroy call
    calls          \* Deploy page: the trigger_terraform calls of the run

vars == <<pc, op, action, proc, argv, runs, outcome, result, raised,
          sIn, sOut, sOut2, sPhase, tfplan, deployed, scenario,
          ec2Api, s3Api, ec2Result, s3Result, summary,
          ceApi, costResult, logsApi, logsResult,
          session_state, dpc, pressed, rendered, rerunRequested,
          flagAtStart, armed, calls>>

callVars == <<pc, op, action, proc, argv, runs, outcome, result, raised>>
stripVars == <<sIn, sOut, sOut2, sPhase>>
toolVars == <<tfplan, deployed, scenario>>
dashVars == <<session_state, dpc, pressed, rendered, rerunRequested,
              flagAtStart, armed, calls>>
appVars == <<ec2Api, s3Api, ec2Result, s3Result, summary,
             ceApi, costResult, logsApi, logsResult, dashVars>>

----------------------------------------------------------------------------
(* Characters and text *)

\* \x1B and \[ of the pattern of line 18.
ESC == 27
LBracket == 91

\* Longest input text of a sanitizer run.
MaxLen == 4

\* The characters the inputs are built from, one of every class the pattern
\* of line 18 tells apart: LF (in no class), ESC, ' ' (intermediate),
\* '0' (parameter), 'A' (two-byte final and CSI final), '[' (the CSI
\* introducer, also a CSI final), 'm' (CSI final only).
Alphabet == {10, ESC, 32, 48, 65, LBracket, 109}

RECURSIVE TextsOfLen(_)
TextsOfLen(n) ==
    IF n = 0 THEN {<<>>}
    ELSE {Append(t, ch) : t \in TextsOfLen(n - 1), ch \in Alphabet}

Texts == UNION {TextsOfLen(n) : n \in 0..MaxLen}

\* Python's None, where a text is expected.
None == <<-1>>

----------------------------------------------------------------------------
(* strip_ansi_codes: re.compile(r'\x1B(?:[@-Z\\-_]|\[[0-?]*[ -/]*[@-~])')   *)
(* and .sub('', text)                                                      *)

\* [@-Z\\-_] : '@'..'Z' and '\'..'_'
IsTwoByteFinal(ch) == (ch >= 64 /\ ch <= 90) \/ (ch >= 92 /\ ch <= 95)
\* [0-?]
IsParam(ch) == ch >= 48 /\ ch <= 63
\* [ -/]
IsIntermediate(ch) == ch >= 32 /\ ch <= 47
\* [@-~]
IsCsiFinal(ch) == ch >= 64 /\ ch <= 126

\* [0-?]* from position j: the position after the longest run.
RECURSIVE SkipParams(_, _)
SkipParams(s, j) ==
    IF j <= Len(s) /\ IsParam(s[j]) THEN SkipParams(s, j + 1) ELSE j

\* [ -/]* from position j.
RECURSIVE SkipIntermediates(_, _)
SkipIntermediates(s, j) ==
    IF j <= Len(s) /\ IsIntermediate(s[j]) THEN SkipIntermediates(s, j + 1) ELSE j

\* The position after the match of the pattern that starts at position i, or
\* 0 when the pattern does not match there.  The three classes of the CSI
\* branch are disjoint, so the greedy match is the only one.
MatchEnd(s, i) ==
    IF i + 1 > Len(s) \/ s[i] # ESC THEN 0
    ELSE IF IsTwoByteFinal(s[i + 1]) THEN i + 2
    ELSE IF s[i + 1] = LBracket
         THEN LET j == SkipIntermediates(s, SkipParams(s, i + 2))
              IN  IF j <= Len(s) /\ IsCsiFinal(s[j]) THEN j + 1 ELSE 0
    ELSE 0

\* ansi_escape.sub('', text) from position i: one left-to-right pass that
\* drops every match and resumes after it; what is left is not scanned again.
RECURSIVE SubFrom(_, _)
SubFrom(s, i) ==
    IF i > Len(s) THEN <<>>
    ELSE LET e == MatchEnd(s, i)
         IN  IF e > 0 THEN SubFrom(s, e)
             ELSE <<s[i]>> \o SubFrom(s, i + 1)

strip_ansi_codes(text) == SubFrom(text, 1)

\* ansi_escape.search(text) is not None
HasAnsi(s) == \E i \in 1..Len(s) : MatchEnd(s, i) > 0

\* str.strip(): leading and trailing whitespace removed.
IsSpace(ch) == ch \in {9, 10, 11, 12, 13, 32} \/ (ch >= 28 /\ ch <= 31)

RECURSIVE LStrip(_)
LStrip(s) == IF s # <<>> /\ IsSpace(Head(s)) THEN LStrip(Tail(s)) ELSE s

RECURSIVE RStrip(_)
RStrip(s) ==
    IF s # <<>> /\ IsSpace(s[Len(s)]) THEN RStrip(SubSeq(s, 1, Len(s) - 1)) ELSE s

PyStrip(s) == RStrip(LStrip(s))

----------------------------------------------------------------------------
(* The fixed messages of the code *)

\* "Terraform command timed out"  (get_terraform_status, line 50)
StatusTimeoutMsg ==
    <<84, 101, 114, 114, 97, 102, 111, 114, 109, 32, 99, 111, 109, 109, 97,
      110, 100, 32, 116, 105, 109, 101, 100, 32, 111, 117, 116>>

\* "Terraform plan timed out after 2 minutes"  (terraform_plan, line 81)
PlanTimeoutMsg ==
    <<84, 101, 114, 114, 97, 102, 111, 114, 109, 32, 112, 108, 97, 110, 32,
      116, 105, 109, 101, 100, 32, 111, 117, 116, 32, 97, 102, 116, 101,
      114, 32, 50, 32, 109, 105, 110, 117, 116, 101, 115>>

\* "Terraform apply timed out after 10 minutes"  (terraform_apply, line 112)
ApplyTimeoutMsg ==
    <<84, 101, 114, 114, 97, 102, 111, 114, 109, 32, 97, 112, 112, 108, 121,
      32, 116, 105, 109, 101, 100, 32, 111, 117, 116, 32, 97, 102, 116, 101,
      114, 32, 49, 48, 32, 109, 105, 110, 117, 116, 101, 115>>

\* "Terraform destroy timed out after 10 minutes"  (terraform_destroy, line 143)
DestroyTimeoutMsg ==
    <<84, 101, 114, 114, 97, 102, 111, 114, 109, 32, 100, 101, 115, 116,
      114, 111, 121, 32, 116, 105, 109, 101, 100, 32, 111, 117, 116, 32, 97,
      102, 116, 101, 114, 32, 49, 48, 32, 109, 105, 110, 117, 116, 101,
      115>>

\* "Terraform state check timed out"  (get_terraform_state, line 188)
StateTimeoutMsg ==
    <<84, 101, 114, 114, 97, 102, 111, 114, 109, 32, 115, 116, 97, 116, 101,
      32, 99, 104, 101, 99, 107, 32, 116, 105, 109, 101, 100, 32, 111, 117,
      116>>

\* "Terraform outputs check timed out"  (get_terraform_outputs, line 248)
OutputsTimeoutMsg ==
    <<84, 101, 114, 114, 97, 102, 111, 114, 109, 32, 111, 117, 116, 112,
      117, 116, 115, 32, 99, 104, 101, 99, 107, 32, 116, 105, 109, 101, 100,
      32, 111, 117, 116>>

\* "Failed to parse Terraform state JSON"  (get_terraform_state, line 177)
StateParseMsg ==
    <<70, 97, 105, 108, 101, 100, 32, 116, 111, 32, 112, 97, 114, 115, 101,
      32, 84, 101, 114, 114, 97, 102, 111, 114, 109, 32, 115, 116, 97, 116,
      101, 32, 74, 83, 79, 78>>

\* "Failed to parse Terraform outputs JSON"  (get_terraform_outputs, line 237)
OutputsParseMsg ==
    <<70, 97, 105, 108, 101, 100, 32, 116, 111, 32, 112, 97, 114, 115, 101,
      32, 84, 101, 114, 114, 97, 102, 111, 114, 109, 32, 111, 117, 116, 112,
      117, 116, 115, 32, 74, 83, 79, 78>>

\* "No state information available"  (get_terraform_state, line 182)
NoStateMsg ==
    <<78, 111, 32, 115, 116, 97, 116, 101, 32, 105, 110, 102, 111, 114, 109,
      97, 116, 105, 111, 110, 32, 97, 118, 97, 105, 108, 97, 98, 108, 101>>

\* "No outputs available"  (get_terraform_outputs, line 242)
NoOutputsMsg ==
    <<78, 111, 32, 111, 117, 116, 112, 117, 116, 115, 32, 97, 118, 97, 105,
      108, 97, 98, 108, 101>>

\* "Unknown action: "  (trigger_terraform, line 211)
UnknownActionPrefix ==
    <<85, 110, 107, 110, 111, 119, 110, 32, 97, 99, 116, 105, 111, 110, 58,
      32>>

\* ". Supported actions: plan, apply, destroy"  (trigger_terraform, line 211)
UnknownActionSuffix ==
    <<46, 32, 83, 117, 112, 112, 111, 114, 116, 101, 100, 32, 97, 99, 116,
      105, 111, 110, 115, 58, 32, 112, 108, 97, 110, 44, 32, 97, 112, 112,
      108, 121, 44, 32, 100, 101, 115, 116, 114, 111, 121>>

\* "[Errno 2] No such file or directory: 'terraform'"  (str(e) of the FileNotFoundError of subprocess.run)
FileNotFoundStr ==
    <<91, 69, 114, 114, 110, 111, 32, 50, 93, 32, 78, 111, 32, 115, 117, 99,
      104, 32, 102, 105, 108, 101, 32, 111, 114, 32, 100, 105, 114, 101, 99,
      116, 111, 114, 121, 58, 32, 39, 116, 101, 114, 114, 97, 102, 111, 114,
      109, 39>>

\* "[Errno 13] Permission denied: 'terraform'"  (str(e) of the PermissionError of subprocess.run)
PermissionStr ==
    <<91, 69, 114, 114, 110, 111, 32, 49, 51, 93, 32, 80, 101, 114, 109,
      105, 115, 115, 105, 111, 110, 32, 100, 101, 110, 105, 101, 100, 58,
      32, 39, 116, 101, 114, 114, 97, 102, 111, 114, 109, 39>>

\* "'list' object has no attribute 'get'"  (str(e) of state_data.get on a JSON array)
ListAttrStr ==
    <<39, 108, 105, 115, 116, 39, 32, 111, 98, 106, 101, 99, 116, 32, 104,
      97, 115, 32, 110, 111, 32, 97, 116, 116, 114, 105, 98, 117, 116, 101,
      32, 39, 103, 101, 116, 39>>

\* "'NoneType' object has no attribute 'get'"  (str(e) of .get on a JSON null)
NoneAttrStr ==
    <<39, 78, 111, 110, 101, 84, 121, 112, 101, 39, 32, 111, 98, 106, 101,
      99, 116, 32, 104, 97, 115, 32, 110, 111, 32, 97, 116, 116, 114, 105,
      98, 117, 116, 101, 32, 39, 103, 101, 116, 39>>

\* The characters of an action name, as the f-string of line 211 formats it.
ActionText(a) ==
    IF a = "plan" THEN <<112, 108, 97, 110>>
    ELSE IF a = "apply" THEN <<97, 112, 112, 108, 121>>
    ELSE IF a = "destroy" THEN <<100, 101, 115, 116, 114, 111, 121>>
    ELSE IF a = "init" THEN <<105, 110, 105, 116>>
    ELSE IF a = "PLAN" THEN <<80, 76, 65, 78>>
    ELSE <<>>
\* str(e) of the TimeoutExpired that subprocess.run raises for an operation.
TimeoutExpiredStr(o) ==
    \* "Command '['terraform', 'version']' timed out after 10 seconds"
    IF o = "status" THEN
        <<67, 111, 109, 109, 97, 110, 100, 32, 39, 91, 39, 116, 101, 114,
          114, 97, 102, 111, 114, 109, 39, 44, 32, 39, 118, 101, 114, 115,
          105, 111, 110, 39, 93, 39, 32, 116, 105, 109, 101, 100, 32, 111,
          117, 116, 32, 97, 102, 116, 101, 114, 32, 49, 48, 32, 115, 101,
          99, 111, 110, 100, 115>>
    \* "Command '['terraform', 'plan', '-out=tfplan']' timed out after 120 seconds"
    ELSE IF o = "plan" THEN
        <<67, 111, 109, 109, 97, 110, 100, 32, 39, 91, 39, 116, 101, 114,
          114, 97, 102, 111, 114, 109, 39, 44, 32, 39, 112, 108, 97, 110,
          39, 44, 32, 39, 45, 111, 117, 116, 61, 116, 102, 112, 108, 97,
          110, 39, 93, 39, 32, 116, 105, 109, 101, 100, 32, 111, 117, 116,
          32, 97, 102, 116, 101, 114, 32, 49, 50, 48, 32, 115, 101, 99,
          111, 110, 100, 115>>
    \* "Command '['terraform', 'apply', '-auto-approve', 'tfplan']' timed out after 600 seconds"
    ELSE IF o = "apply" THEN
        <<67, 111, 109, 109, 97, 110, 100, 32, 39, 91, 39, 116, 101, 114,
          114, 97, 102, 111, 114, 109, 39, 44, 32, 39, 97, 112, 112, 108,
          121, 39, 44, 32, 39, 45, 97, 117, 116, 111, 45, 97, 112, 112,
          114, 111, 118, 101, 39, 44, 32, 39, 116, 102, 112, 108, 97, 110,
          39, 93, 39, 32, 116, 105, 109, 101, 100, 32, 111, 117, 116, 32,
          97, 102, 116, 101, 114, 32, 54, 48, 48, 32, 115, 101, 99, 111,
          110, 100, 115>>
    \* "Command '['terraform', 'destroy', '-auto-approve']' timed out after 600 seconds"
    ELSE IF o = "destroy" THEN
        <<67, 111, 109, 109, 97, 110, 100, 32, 39, 91, 39, 116, 101, 114,
          114, 97, 102, 111, 114, 109, 39, 44, 32, 39, 100, 101, 115, 116,
          114, 111, 121, 39, 44, 32, 39, 45, 97, 117, 116, 111, 45, 97,
          112, 112, 114, 111, 118, 101, 39, 93, 39, 32, 116, 105, 109,
          101, 100, 32, 111, 117, 116, 32, 97, 102, 116, 101, 114, 32, 54,
          48, 48, 32, 115, 101, 99, 111, 110, 100, 115>>
    \* "Command '['terraform', 'show', '-json']' timed out after 30 seconds"
    ELSE IF o = "state" THEN
        <<67, 111, 109, 109, 97, 110, 100, 32, 39, 91, 39, 116, 101, 114,
          114, 97, 102, 111, 114, 109, 39, 44, 32, 39, 115, 104, 111, 119,
          39, 44, 32, 39, 45, 106, 115, 111, 110, 39, 93, 39, 32, 116,
          105, 109, 101, 100, 32, 111, 117, 116, 32, 97, 102, 116, 101,
          114, 32, 51, 48, 32, 115, 101, 99, 111, 110, 100, 115>>
    \* "Command '['terraform', 'output', '-json']' timed out after 30 seconds"
    ELSE IF o = "outputs" THEN
        <<67, 111, 109, 109, 97, 110, 100, 32, 39, 91, 39, 116, 101, 114,
          114, 97, 102, 111, 114, 109, 39, 44, 32, 39, 111, 117, 116, 112,
          117, 116, 39, 44, 32, 39, 45, 106, 115, 111, 110, 39, 93, 39,
          32, 116, 105, 109, 101, 100, 32, 111, 117, 116, 32, 97, 102,
          116, 101, 114, 32, 51, 48, 32, 115, 101, 99, 111, 110, 100,
          115>>
    ELSE <<>>
----------------------------------------------------------------------------
(* Values *)

Callers == {"c1", "c2"}

\* Calls of subprocess.run counted for one call of an operation.
MaxRuns == 3

\* The functions of the module that start the external tool.
Ops == {"status", "plan", "apply", "destroy", "state", "outputs"}

\* The operations a caller calls by name.
DirectOps == {"status", "state", "outputs"}

\* Arguments given to trigger_terraform: the three supported names and two
\* others (an unsupported subcommand, a supported name in another case).
ActionArgs == {"plan", "apply", "destroy", "init", "PLAN"}

\* Exit codes of the tool.
ExitCodes == {0, 1}

\* Captured stdout / stderr of the tool: empty; two plain lines "A\nm\n";
\* coloured "ESC[0mA"; an escape sequence behind a stray ESC, "ESC ESC[m[m".
ToolTexts ==
    { <<>>,
      <<65, 10, 109, 10>>,
      <<ESC, LBracket, 48, 109, 65>>,
      <<ESC, ESC, LBracket, 109, LBracket, 109>> }

\* An exception object: its class and str(e).
Exc(type, msg) == [type |-> type, msg |-> msg]
NoExc == Exc("none", <<>>)

\* The classes caught by "except Exception".
ExceptionClasses ==
    {"TimeoutExpired", "FileNotFoundError", "PermissionError",
     "JSONDecodeError", "AttributeError", "KeyError",
     "NoCredentialsError", "ClientError", "ValueError", "UnboundLocalError"}
IsException(e) == e.type \in ExceptionClasses

\* What Popen raises when the child cannot be started.
LaunchErrors ==
    { Exc("FileNotFoundError", FileNotFoundStr),
      Exc("PermissionError", PermissionStr) }

\* The stdout of "terraform show -json" / "terraform output -json", as the
\* value json.loads makes of it.  wf: the text is well-formed JSON; top: the
\* type of the top-level value; values / root: the keys 'values' and
\* 'root_module'; resources: the root module's 'resources' (address "" when
\* a resource has no 'address' key); child: resources of child modules.
Doc(wf, top, values, root, hasRes, resources, child) ==
    [wf |-> wf, top |-> top, values |-> values, root |-> root,
     hasResources |-> hasRes, resources |-> resources, child |-> child]

NoDoc == Doc(FALSE, "none", "absent", "absent", FALSE, <<>>, 0)

Docs ==
    { Doc(FALSE, "none", "absent", "absent", FALSE, <<>>, 0),      \* not JSON
      Doc(TRUE, "array", "absent", "absent", FALSE, <<>>, 0),      \* []
      Doc(TRUE, "object", "absent", "absent", FALSE, <<>>, 0),     \* {}
      Doc(TRUE, "object", "null", "absent", FALSE, <<>>, 0),       \* {"values": null}
      Doc(TRUE, "object", "object", "absent", FALSE, <<>>, 0),     \* no 'root_module'
      Doc(TRUE, "object", "object", "object", FALSE, <<>>, 0),     \* no 'resources'
      Doc(TRUE, "object", "object", "object", TRUE, <<>>, 0),      \* 'resources': []
      Doc(TRUE, "object", "object", "object", TRUE,
          <<"aws_s3_bucket.demo", "", "aws_lambda_function.demo">>, 1) }

\* What subprocess.run produced: a CompletedProcess (kind "exit") or an
\* exception (kind "raise").  marker: os.path.exists("terraform/.terraform")
\* at the time of the call.
Outcome(kind, code, out, err, doc, marker, exc) ==
    [kind |-> kind, code |-> code, stdout |-> out, stderr |-> err,
     doc |-> doc, marker |-> marker, exc |-> exc]

NoOutcome == Outcome("none", 0, <<>>, <<>>, NoDoc, FALSE, NoExc)
Exited(code, out, err, doc, marker) ==
    Outcome("exit", code, out, err, doc, marker, NoExc)
Raised(e) == Outcome("raise", 0, <<>>, <<>>, NoDoc, FALSE, e)

\* How an operation ends: a returned value or a propagated exception.
NoResult == [none |-> TRUE]
Return(v) == [raised |-> NoExc, value |-> v]
Raise(e) == [raised |-> e, value |-> NoResult]

----------------------------------------------------------------------------
(* The operations, as functions of what subprocess.run produced *)

\* Argv with apply given no plan file: the tool then makes a plan of its
\* own and applies it.
Argv_ApplyWithoutPlanFile(o) ==
    IF o = "status" THEN <<"terraform", "version">>
    ELSE IF o = "plan" THEN <<"terraform", "plan", "-out=tfplan">>
    ELSE IF o = "apply" THEN <<"terraform", "apply", "-auto-approve">>
    ELSE IF o = "destroy" THEN <<"terraform", "destroy", "-auto-approve">>
    ELSE IF o = "state" THEN <<"terraform", "show", "-json">>
    ELSE IF o = "outputs" THEN <<"terraform", "output", "-json">>
    ELSE <<>>

\* The command line of each operation.
Argv(o) ==
    IF o = "status" THEN <<"terraform", "version">>
    ELSE IF o = "plan" THEN <<"terraform", "plan", "-out=tfplan">>
    ELSE IF o = "apply" THEN <<"terraform", "apply", "-auto-approve", "tfplan">>
    ELSE IF o = "destroy" THEN <<"terraform", "destroy", "-auto-approve">>
    ELSE IF o = "state" THEN <<"terraform", "show", "-json">>
    ELSE IF o = "outputs" THEN <<"terraform", "output", "-json">>
    ELSE <<>>

\* get_terraform_status that reports the tool available whenever the
\* version check ran, whatever its exit code.
get_terraform_status_AnyExit(o) ==
    IF o.kind = "exit" THEN
        Return([terraform_available |-> TRUE,
                version |-> PyStrip(o.stdout),
                initialized |-> o.marker])
    ELSE IF o.exc.type = "TimeoutExpired"
        THEN Return([terraform_available |-> FALSE, error |-> StatusTimeoutMsg])
    ELSE IF IsException(o.exc)
        THEN Return([terraform_available |-> FALSE, error |-> o.exc.msg])
    ELSE Raise(o.exc)

get_terraform_status(o) ==
    IF o.kind = "exit" THEN
        IF o.code = 0
        THEN Return([terraform_available |-> TRUE,
                     version |-> PyStrip(o.stdout),
                     initialized |-> o.marker])
        ELSE Return([terraform_available |-> FALSE, error |-> o.stderr])
    ELSE IF o.exc.type = "TimeoutExpired"
        THEN Return([terraform_available |-> FALSE, error |-> StatusTimeoutMsg])
    ELSE IF IsException(o.exc)
        THEN Return([terraform_available |-> FALSE, error |-> o.exc.msg])
    ELSE Raise(o.exc)

\* ExecutionResult with stderr returned as captured.
ExecutionResult_RawError(o) ==
    [success |-> o.code = 0,
     output |-> strip_ansi_codes(o.stdout),
     error |-> IF o.code # 0 THEN o.stderr ELSE None]

\* ExecutionResult with the error decided by stderr instead of the exit code.
ExecutionResult_ErrorFromStderr(o) ==
    [success |-> o.code = 0,
     output |-> strip_ansi_codes(o.stdout),
     error |-> IF o.stderr # <<>> THEN strip_ansi_codes(o.stderr) ELSE None]

\* The dictionary of lines 72-76, 103-107 and 134-138.
ExecutionResult(o) ==
    [success |-> o.code = 0,
     output |-> strip_ansi_codes(o.stdout),
     error |-> IF o.code # 0 THEN strip_ansi_codes(o.stderr) ELSE None]

terraform_plan(o) ==
    IF o.kind = "exit" THEN Return(ExecutionResult(o))
    ELSE IF o.exc.type = "TimeoutExpired"
        THEN Return([success |-> FALSE, error |-> PlanTimeoutMsg])
    ELSE IF IsException(o.exc)
        THEN Return([success |-> FALSE, error |-> o.exc.msg])
    ELSE Raise(o.exc)

terraform_apply(o) ==
    IF o.kind = "exit" THEN Return(ExecutionResult(o))
    ELSE IF o.exc.type = "TimeoutExpired"
        THEN Return([success |-> FALSE, error |-> ApplyTimeoutMsg])
    ELSE IF IsException(o.exc)
        THEN Return([success |-> FALSE, error |-> o.exc.msg])
    ELSE Raise(o.exc)

terraform_destroy(o) ==
    IF o.kind = "exit" THEN Return(ExecutionResult(o))
    ELSE IF o.exc.type = "TimeoutExpired"
        THEN Return([success |-> FALSE, error |-> DestroyTimeoutMsg])
    ELSE IF IsException(o.exc)
        THEN Return([success |-> FALSE, error |-> o.exc.msg])
    ELSE Raise(o.exc)

\* json.loads(result.stdout)
JsonLoads(doc) ==
    IF doc.wf THEN Return(doc) ELSE Raise(Exc("JSONDecodeError", <<>>))

\* [r.get('address', 'Unknown') for r in resources]
RECURSIVE AddressList(_)
AddressList(rs) ==
    IF rs = <<>> THEN <<>>
    ELSE <<IF Head(rs) = "" THEN "Unknown" ELSE Head(rs)>> \o AddressList(Tail(rs))

\* StateSnapshot that looks for 'resources' at the top level of the
\* document, where the state document has none.
StateSnapshot_TopLevelResources(doc) ==
    LET parsed == JsonLoads(doc)
    IN  IF parsed.raised # NoExc THEN parsed
        ELSE IF doc.top # "object" THEN Raise(Exc("AttributeError", ListAttrStr))
        ELSE Return([success |-> TRUE,
                     resources |-> 0,
                     resource_list |-> <<>>,
                     state_data |-> doc])

\* StateSnapshot with the keys subscripted,
\* state_data['values']['root_module']['resources'], instead of .get with a
\* default.
StateSnapshot_RequireKeys(doc) ==
    LET parsed == JsonLoads(doc)
    IN  IF parsed.raised # NoExc THEN parsed
        ELSE IF doc.top # "object" THEN Raise(Exc("AttributeError", ListAttrStr))
        ELSE IF doc.values = "null" THEN Raise(Exc("AttributeError", NoneAttrStr))
        ELSE IF ~(doc.values = "object" /\ doc.root = "object" /\ doc.hasResources)
            THEN Raise(Exc("KeyError", <<>>))
        ELSE Return([success |-> TRUE,
                     resources |-> Len(doc.resources),
                     resource_list |-> AddressList(doc.resources),
                     state_data |-> doc])

\* StateSnapshot that adds the resources of the child modules to the count.
StateSnapshot_CountChildModules(doc) ==
    LET parsed == JsonLoads(doc)
    IN  IF parsed.raised # NoExc THEN parsed
        ELSE IF doc.top # "object" THEN Raise(Exc("AttributeError", ListAttrStr))
        ELSE IF doc.values = "null" THEN Raise(Exc("AttributeError", NoneAttrStr))
        ELSE LET resources ==
                     IF doc.values = "object" /\ doc.root = "object"
                        /\ doc.hasResources
                     THEN doc.resources ELSE <<>>
             IN  Return([success |-> TRUE,
                         resources |-> Len(resources) + doc.child,
                         resource_list |-> AddressList(resources),
                         state_data |-> doc])

\* Lines 166-173: the inner try block of get_terraform_state.
StateSnapshot(doc) ==
    LET parsed == JsonLoads(doc)
    IN  IF parsed.raised # NoExc THEN parsed
        ELSE IF doc.top # "object" THEN Raise(Exc("AttributeError", ListAttrStr))
        ELSE IF doc.values = "null" THEN Raise(Exc("AttributeError", NoneAttrStr))
        ELSE LET resources ==
                     IF doc.values = "object" /\ doc.root = "object"
                        /\ doc.hasResources
                     THEN doc.resources ELSE <<>>
             IN  Return([success |-> TRUE,
                         resources |-> Len(resources),
                         resource_list |-> AddressList(resources),
                         state_data |-> doc])

\* Lines 155-183: the try block of get_terraform_state.
StateTry(o) ==
    IF o.kind # "exit" THEN Raise(o.exc)
    ELSE IF o.code = 0 THEN
        LET r == StateSnapshot(o.doc)
        IN  IF r.raised.type = "JSONDecodeError"
            THEN Return([success |-> FALSE, error |-> StateParseMsg])
            ELSE r
    ELSE Return([success |-> FALSE,
                 error |-> IF o.stderr # <<>> THEN strip_ansi_codes(o.stderr)
                           ELSE NoStateMsg])

\* get_terraform_state without its "except subprocess.TimeoutExpired" clause.
get_terraform_state_NoTimeoutClause(o) ==
    LET r == StateTry(o)
    IN  IF r.raised = NoExc THEN r
        ELSE IF IsException(r.raised)
            THEN Return([success |-> FALSE, error |-> r.raised.msg])
        ELSE r

\* get_terraform_state without its "except Exception" clause.
get_terraform_state_NoCatchAll(o) ==
    LET r == StateTry(o)
    IN  IF r.raised = NoExc THEN r
        ELSE IF r.raised.type = "TimeoutExpired"
            THEN Return([success |-> FALSE, error |-> StateTimeoutMsg])
        ELSE r

\* get_terraform_state that keeps the last snapshot in a module-level
\* variable and returns it while one is there: here, the snapshot another
\* caller has just been given.
get_terraform_state_Cached(o) ==
    LET holders == {d \in Callers :
                       /\ pc[d] = "done" /\ op[d] = "state"
                       /\ outcome[d].kind = "exit" /\ outcome[d].code = 0
                       /\ "resources" \in DOMAIN result[d]}
        r == StateTry(o)
    IN  IF holders # {} THEN Return(result[CHOOSE d \in holders : TRUE])
        ELSE IF r.raised = NoExc THEN r
        ELSE IF r.raised.type = "TimeoutExpired"
            THEN Return([success |-> FALSE, error |-> StateTimeoutMsg])
        ELSE IF IsException(r.raised)
            THEN Return([success |-> FALSE, error |-> r.raised.msg])
        ELSE r

get_terraform_state(o) ==
    LET r == StateTry(o)
    IN  IF r.raised = NoExc THEN r
        ELSE IF r.raised.type = "TimeoutExpired"
            THEN Return([success |-> FALSE, error |-> StateTimeoutMsg])
        ELSE IF IsException(r.raised)
            THEN Return([success |-> FALSE, error |-> r.raised.msg])
        ELSE r

\* Lines 218-243: the try block of get_terraform_outputs.
OutputsTry(o) ==
    IF o.kind # "exit" THEN Raise(o.exc)
    ELSE IF o.code = 0 THEN
        LET r == JsonLoads(o.doc)
        IN  IF r.raised.type = "JSONDecodeError"
            THEN Return([success |-> FALSE, error |-> OutputsParseMsg])
            ELSE Return([success |-> TRUE, outputs |-> r.value])
    ELSE Return([success |-> FALSE,
                 error |-> IF o.stderr # <<>> THEN strip_ansi_codes(o.stderr)
                           ELSE NoOutputsMsg])

get_terraform_outputs(o) ==
    LET r == OutputsTry(o)
    IN  IF r.raised = NoExc THEN r
        ELSE IF r.raised.type = "TimeoutExpired"
            THEN Return([success |-> FALSE, error |-> OutputsTimeoutMsg])
        ELSE IF IsException(r.raised)
            THEN Return([success |-> FALSE, error |-> r.raised.msg])
        ELSE r

\* Route with the else branch falling back to the default action.
Route_DefaultPlan(a) ==
    IF a = "plan" THEN "plan"
    ELSE IF a = "apply" THEN "apply"
    ELSE IF a = "destroy" THEN "destroy"
    ELSE "plan"

\* The function that trigger_terraform calls for an action, "none" for the
\* else branch.
Route(a) ==
    IF a = "plan" THEN "plan"
    ELSE IF a = "apply" THEN "apply"
    ELSE IF a = "destroy" THEN "destroy"
    ELSE "none"

\* The dictionary of the else branch of trigger_terraform.
UnknownAction(a) ==
    [success |-> FALSE,
     error |-> UnknownActionPrefix \o ActionText(a) \o UnknownActionSuffix]

\* The operation named o, applied to what its subprocess.run produced.
Operation(o, out) ==
    IF o = "status" THEN get_terraform_status(out)
    ELSE IF o = "plan" THEN terraform_plan(out)
    ELSE IF o = "apply" THEN terraform_apply(out)
    ELSE IF o = "destroy" THEN terraform_destroy(out)
    ELSE IF o = "state" THEN get_terraform_state(out)
    ELSE get_terraform_outputs(out)

\* subprocess.run with a timeout: on expiry it kills the child and waits
\* for it before TimeoutExpired is raised.
ChildAfterTimeout == "killed"

\* ControlAfterRun with a failed run started again.
ControlAfterRun_Retry(o, out) ==
    IF out.kind = "raise" \/ out.code # 0 THEN "rerun" ELSE "return"

\* What an operation does once subprocess.run has produced a value or an
\* exception: every branch and every handler is a return statement
\* ("return"); no branch calls subprocess.run again ("rerun").
ControlAfterRun(o, out) == "return"

----------------------------------------------------------------------------
(* The state machine *)

TypeOK ==
    /\ pc \in [Callers -> {"idle", "running", "done"}]
    /\ op \in [Callers -> Ops \cup {"none"}]
    /\ action \in [Callers -> ActionArgs \cup {"none"}]
    /\ proc \in [Callers -> {"none", "running", "exited", "killed"}]
    /\ runs \in [Callers -> 0..MaxRuns]
    /\ sPhase \in 0..2
    /\ tfplan \in BOOLEAN
    /\ scenario \in 0..6

IdleInit ==
    /\ pc = [c \in Callers |-> "idle"]
    /\ op = [c \in Callers |-> "none"]
    /\ action = [c \in Callers |-> "none"]
    /\ proc = [c \in Callers |-> "none"]
    /\ argv = [c \in Callers |-> <<>>]
    /\ runs = [c \in Callers |-> 0]
    /\ outcome = [c \in Callers |-> NoOutcome]
    /\ result = [c \in Callers |-> NoResult]
    /\ raised = [c \in Callers |-> NoExc]

\* No sanitizer run.
StripIdle ==
    /\ sIn = <<>>
    /\ sOut = None
    /\ sOut2 = None
    /\ sPhase = 0

\* The working directory before anything was planned or applied.  Spec and
\* SpecStrip do not follow the tool's files: there the tool may answer
\* anything at any time.
ToolIdle ==
    /\ tfplan = FALSE
    /\ deployed = 0
    /\ scenario = 0

\* A call that was not made: no value yet.  Done(v): the call returned v.
Pending == [done |-> FALSE, value |-> <<>>]
Done(v) == [done |-> TRUE, value |-> v]

\* The pages of the dashboard besides the calls of the orchestrator.
Pages == {"inventory", "costs", "logs", "deploy"}

\* These pages are not open: no AWS call is made and no value returned for
\* them, and no script of the Deploy page has run.
Closed(pages) ==
    /\ "inventory" \in pages =>
          /\ ec2Api = [kind |-> "none"]
          /\ s3Api = [kind |-> "none"]
          /\ ec2Result = Pending
          /\ s3Result = Pending
          /\ summary = Pending
    /\ "costs" \in pages => ceApi = [kind |-> "none"] /\ costResult = Pending
    /\ "logs" \in pages => logsApi = [kind |-> "none"] /\ logsResult = Pending
    /\ "deploy" \in pages =>
          /\ session_state = <<>>
          /\ dpc = "closed"
          /\ pressed = "none"
          /\ rendered = {}
          /\ rerunRequested = "none"
          /\ flagAtStart = FALSE
          /\ armed = FALSE
          /\ calls = <<>>

Init ==
    /\ IdleInit
    /\ StripIdle
    /\ ToolIdle
    /\ Closed(Pages)

\* The operation goes on from what subprocess.run produced (out), with the
\* child left in state child: it returns a value or lets an exception out.
\* n is the number of subprocess.run calls the operation has made.
Finish(c, o, out, child, n) ==
    LET r == Operation(o, out)
    IN  IF ControlAfterRun(o, out) = "rerun" /\ n < MaxRuns
        THEN /\ pc' = [pc EXCEPT ![c] = "running"]
             /\ proc' = [proc EXCEPT ![c] = "running"]
             /\ runs' = [runs EXCEPT ![c] = n + 1]
             /\ UNCHANGED <<outcome, result, raised>>
        ELSE /\ pc' = [pc EXCEPT ![c] = "done"]
             /\ proc' = [proc EXCEPT ![c] = child]
             /\ runs' = [runs EXCEPT ![c] = n]
             /\ outcome' = [outcome EXCEPT ![c] = out]
             /\ result' = [result EXCEPT ![c] = r.value]
             /\ raised' = [raised EXCEPT ![c] = r.raised]

\* Invoke behind a single-flight guard: no operation is entered while
\* another caller's child is running.
Invoke_SingleFlight(c, o, a) ==
    /\ pc[c] = "idle"
    /\ \A d \in Callers \ {c} : pc[d] # "running"
    /\ op' = [op EXCEPT ![c] = o]
    /\ action' = [action EXCEPT ![c] = a]
    /\ argv' = [argv EXCEPT ![c] = Argv(o)]
    /\ \/ /\ pc' = [pc EXCEPT ![c] = "running"]
          /\ proc' = [proc EXCEPT ![c] = "running"]
          /\ runs' = [runs EXCEPT ![c] = runs[c] + 1]
          /\ UNCHANGED <<outcome, result, raised>>
       \/ \E e \in LaunchErrors : Finish(c, o, Raised(e), "none", runs[c] + 1)
    /\ UNCHANGED stripVars
    /\ UNCHANGED appVars
    /\ UNCHANGED toolVars

\* An operation is entered and calls subprocess.run: the child starts and
\* the caller blocks, or Popen raises and the operation ends at once.
Invoke(c, o, a) ==
    /\ pc[c] = "idle"
    /\ op' = [op EXCEPT ![c] = o]
    /\ action' = [action EXCEPT ![c] = a]
    /\ argv' = [argv EXCEPT ![c] = Argv(o)]
    /\ \/ /\ pc' = [pc EXCEPT ![c] = "running"]
          /\ proc' = [proc EXCEPT ![c] = "running"]
          /\ runs' = [runs EXCEPT ![c] = runs[c] + 1]
          /\ UNCHANGED <<outcome, result, raised>>
       \/ \E e \in LaunchErrors : Finish(c, o, Raised(e), "none", runs[c] + 1)
    /\ UNCHANGED stripVars
    /\ UNCHANGED appVars
    /\ UNCHANGED toolVars

\* trigger_terraform with a dry-run check in front of destroy: nothing
\* deployed, nothing started.
TriggerTerraform_DestroyGate(c, a) ==
    \/ /\ Route(a) # "none"
       /\ a = "destroy" => deployed > 0
       /\ Invoke(c, Route(a), a)
    \/ /\ Route(a) = "none"
       /\ pc[c] = "idle"
       /\ pc' = [pc EXCEPT ![c] = "done"]
       /\ action' = [action EXCEPT ![c] = a]
       /\ result' = [result EXCEPT ![c] = UnknownAction(a)]
       /\ UNCHANGED <<op, proc, argv, runs, outcome, raised>>
       /\ UNCHANGED stripVars
       /\ UNCHANGED appVars
       /\ UNCHANGED toolVars

\* trigger_terraform(action)
TriggerTerraform(c, a) ==
    \/ /\ Route(a) # "none"
       /\ Invoke(c, Route(a), a)
    \/ /\ Route(a) = "none"
       /\ pc[c] = "idle"
       /\ pc' = [pc EXCEPT ![c] = "done"]
       /\ action' = [action EXCEPT ![c] = a]
       /\ result' = [result EXCEPT ![c] = UnknownAction(a)]
       /\ UNCHANGED <<op, proc, argv, runs, outcome, raised>>
       /\ UNCHANGED stripVars
       /\ UNCHANGED appVars
       /\ UNCHANGED toolVars

\* get_terraform_status(), get_terraform_state(), get_terraform_outputs().
\* terraform_plan, terraform_apply and terraform_destroy are entered through
\* trigger_terraform, as the dashboard enters them.
CallDirect(c, o) == Invoke(c, o, "none")

\* The inputs of an operation that its child can produce on exit.
ExitOutcomes(o) ==
    IF o = "status"
    THEN {Exited(code, out, err, NoDoc, m) :
            code \in ExitCodes, out \in ToolTexts, err \in ToolTexts, m \in BOOLEAN}
    ELSE IF o \in {"state", "outputs"}
    THEN {Exited(code, <<>>, err, d, FALSE) :
            code \in ExitCodes, err \in ToolTexts, d \in Docs}
    ELSE {Exited(code, out, err, NoDoc, FALSE) :
            code \in ExitCodes, out \in ToolTexts, err \in ToolTexts}

\* The child exits within the timeout; subprocess.run returns.
ProcessExit(c) ==
    /\ pc[c] = "running"
    /\ \E out \in ExitOutcomes(op[c]) :
           Finish(c, op[c], out, "exited", runs[c])
    /\ UNCHANGED <<op, action, argv>>
    /\ UNCHANGED stripVars
    /\ UNCHANGED appVars
    /\ UNCHANGED toolVars

\* The timeout expires; subprocess.run raises TimeoutExpired.
ProcessTimeout(c) ==
    /\ pc[c] = "running"
    /\ Finish(c, op[c],
              Raised(Exc("TimeoutExpired", TimeoutExpiredStr(op[c]))),
              ChildAfterTimeout, runs[c])
    /\ UNCHANGED <<op, action, argv>>
    /\ UNCHANGED stripVars
    /\ UNCHANGED appVars
    /\ UNCHANGED toolVars

\* The caller has its value; nothing of the call is kept.
Finished(c) ==
    /\ pc[c] = "done"
    /\ pc' = [pc EXCEPT ![c] = "idle"]
    /\ op' = [op EXCEPT ![c] = "none"]
    /\ action' = [action EXCEPT ![c] = "none"]
    /\ proc' = [proc EXCEPT ![c] = "none"]
    /\ argv' = [argv EXCEPT ![c] = <<>>]
    /\ runs' = [runs EXCEPT ![c] = 0]
    /\ outcome' = [outcome EXCEPT ![c] = NoOutcome]
    /\ result' = [result EXCEPT ![c] = NoResult]
    /\ raised' = [raised EXCEPT ![c] = NoExc]
    /\ UNCHANGED stripVars
    /\ UNCHANGED appVars
    /\ UNCHANGED toolVars

Next ==
    \E c \in Callers :
        \/ \E a \in ActionArgs : TriggerTerraform(c, a)
        \/ \E o \in DirectOps : CallDirect(c, o)
        \/ ProcessExit(c)
        \/ ProcessTimeout(c)
        \/ Finished(c)

Spec == Init /\ [][Next]_vars

----------------------------------------------------------------------------
(* Sanitizer runs: strip_ansi_codes applied to a text, and to its result *)

StripInit ==
    /\ IdleInit
    /\ ToolIdle
    /\ Closed(Pages)
    /\ sIn \in Texts
    /\ sOut = None
    /\ sOut2 = None
    /\ sPhase = 0

StripOnce ==
    /\ sPhase = 0
    /\ sOut' = strip_ansi_codes(sIn)
    /\ sPhase' = 1
    /\ UNCHANGED <<sIn, sOut2>>
    /\ UNCHANGED callVars
    /\ UNCHANGED appVars
    /\ UNCHANGED toolVars

StripTwice ==
    /\ sPhase = 1
    /\ sOut2' = strip_ansi_codes(sOut)
    /\ sPhase' = 2
    /\ UNCHANGED <<sIn, sOut>>
    /\ UNCHANGED callVars
    /\ UNCHANGED appVars
    /\ UNCHANGED toolVars

StripNext == StripOnce \/ StripTwice

SpecStrip == StripInit /\ [][StripNext]_vars

----------------------------------------------------------------------------
(* Properties *)

\* The caller has got the value of its call.
Returned(c) == pc[c] = "done" /\ raised[c] = NoExc

\* subprocess.run of the caller's call ended with an exit code.
Completed(c) == pc[c] = "done" /\ outcome[c].kind = "exit"

\* subprocess.run of the caller's call raised an exception of the class.
RunRaised(c, type) ==
    pc[c] = "done" /\ outcome[c].kind = "raise" /\ outcome[c].exc.type = type

PlanApplyDestroy == {"plan", "apply", "destroy"}

\* The failure flag of a returned value: 'terraform_available' for
\* get_terraform_status, 'success' for the others.
Flag(c) ==
    IF op[c] = "status" THEN result[c].terraform_available
    ELSE result[c].success

\* s begins with p.
StartsWith(s, p) == Len(s) >= Len(p) /\ SubSeq(s, 1, Len(p)) = p

\* C1: trigger_terraform(action) runs the subcommand named by the action
\* for "plan", "apply" and "destroy" (and only that operation); for every
\* other action it returns success = False with an error that starts with
\* "Unknown action" and no subprocess is started.
C1_DispatchRoutes ==
    \A c \in Callers :
        (pc[c] # "idle" /\ action[c] # "none") =>
            IF action[c] \in PlanApplyDestroy
            THEN /\ op[c] = action[c]
                 /\ argv[c][1] = "terraform"
                 /\ argv[c][2] = action[c]
                 /\ runs[c] = 1
            ELSE /\ Returned(c)
                 /\ result[c].success = FALSE
                 /\ StartsWith(result[c].error, UnknownActionPrefix)
                 /\ op[c] = "none"
                 /\ proc[c] = "none"
                 /\ argv[c] = <<>>
                 /\ runs[c] = 0

\* Both cases of C1 at once: one caller has its failure for "PLAN", the
\* other is inside the destroy subcommand.
C1_Witness ==
    /\ pc["c1"] = "done" /\ action["c1"] = "PLAN"
    /\ result["c1"].success = FALSE
    /\ pc["c2"] = "running" /\ action["c2"] = "destroy"
    /\ argv["c2"] = <<"terraform", "destroy", "-auto-approve">>

\* C2: when the process of plan, apply or destroy ends with a nonzero exit
\* code, the value has success = False and its error is the stderr of the
\* process after strip_ansi_codes (for the coloured stderr ESC[0mA: "A").
C2_NonzeroExitError ==
    \A c \in Callers :
        (Completed(c) /\ op[c] \in PlanApplyDestroy /\ outcome[c].code # 0) =>
            /\ Returned(c)
            /\ result[c].success = FALSE
            /\ result[c].error = strip_ansi_codes(outcome[c].stderr)
            /\ (outcome[c].stderr = <<ESC, LBracket, 48, 109, 65>>
                    => result[c].error = <<65>>)

C2_Witness ==
    \E c \in Callers :
        /\ Completed(c) /\ op[c] = "apply" /\ outcome[c].code = 1
        /\ outcome[c].stderr = <<ESC, LBracket, 48, 109, 65>>
        /\ result[c].error = <<65>>

\* C3: when the process of plan, apply or destroy ends with an exit code,
\* success is True exactly when the code is 0, and error is None exactly
\* when the code is 0.
C3_SuccessIffExitZero ==
    \A c \in Callers :
        (Completed(c) /\ op[c] \in PlanApplyDestroy) =>
            /\ Returned(c)
            /\ result[c].success = (outcome[c].code = 0)
            /\ (result[c].error = None) = (outcome[c].code = 0)

\* Exit code 0 with text on stderr (warnings), and exit code 1 with an empty
\* stderr: the two cases where stderr and the exit code disagree.
C3_Witness ==
    /\ Completed("c1") /\ op["c1"] = "plan" /\ outcome["c1"].code = 0
    /\ outcome["c1"].stderr # <<>> /\ result["c1"].error = None
    /\ Completed("c2") /\ op["c2"] = "destroy" /\ outcome["c2"].code = 1
    /\ outcome["c2"].stderr = <<>> /\ result["c2"].error = <<>>

\* The message each operation returns for a timeout.
TimeoutMessage(o) ==
    IF o = "status" THEN StatusTimeoutMsg
    ELSE IF o = "plan" THEN PlanTimeoutMsg
    ELSE IF o = "apply" THEN ApplyTimeoutMsg
    ELSE IF o = "destroy" THEN DestroyTimeoutMsg
    ELSE IF o = "state" THEN StateTimeoutMsg
    ELSE OutputsTimeoutMsg

\* The errors an operation returns when its process exits nonzero, over
\* the tool's texts, and when the child cannot be started.
OtherFailureErrors(o) ==
    {Operation(o, out).value.error :
        out \in {x \in ExitOutcomes(o) : x.code # 0}}
    \cup {Operation(o, Raised(e)).value.error : e \in LaunchErrors}

\* C4: when the process of any of the six operations exceeds its timeout,
\* the operation returns a failure whose error is the operation's timeout
\* message, which is none of the errors it returns for a nonzero exit or
\* for an executable that cannot be started, and the child is not running
\* when the value is returned.
C4_TimeoutFailure ==
    \A c \in Callers :
        RunRaised(c, "TimeoutExpired") =>
            /\ Returned(c)
            /\ Flag(c) = FALSE
            /\ result[c].error = TimeoutMessage(op[c])
            /\ result[c].error \notin OtherFailureErrors(op[c])
            /\ proc[c] = "killed"

C4_Witness ==
    /\ RunRaised("c1", "TimeoutExpired") /\ op["c1"] = "state"
    /\ result["c1"].error = StateTimeoutMsg /\ proc["c1"] = "killed"
    /\ RunRaised("c2", "TimeoutExpired") /\ op["c2"] = "status"

\* C5 (as claimed): for every text x, strip(strip(x)) = strip(x), and
\* strip(x) = x when x holds no escape sequence.
C5_StripIdempotent ==
    sPhase = 2 =>
        /\ sOut2 = sOut
        /\ (~HasAnsi(sIn) => sOut = sIn)

\* C6 (as claimed): the output and error of plan, apply and destroy hold
\* no substring that matches the escape-sequence pattern.
C6_ReturnedTextAnsiFree ==
    \A c \in Callers :
        (Completed(c) /\ op[c] \in PlanApplyDestroy /\ Returned(c)) =>
            /\ ~HasAnsi(result[c].output)
            /\ (result[c].error # None => ~HasAnsi(result[c].error))

\* The call of the caller did not succeed: subprocess.run raised, the exit
\* code was not 0, the action was unknown, or the document was not JSON or
\* not of the expected shape.
FailedCall(c) ==
    \/ op[c] = "none"
    \/ outcome[c].kind = "raise"
    \/ outcome[c].code # 0
    \/ (op[c] \in {"state", "outputs"} /\ ~outcome[c].doc.wf)
    \/ (op[c] = "state" /\ outcome[c].doc.top # "object")
    \/ (op[c] = "state" /\ outcome[c].doc.values = "null")

C9_UnavailableHasError ==
    \A c \in Callers :
        (pc[c] = "done" /\ op[c] = "status") =>
            /\ raised[c] = NoExc
            /\ result[c].terraform_available = FALSE =>
                   /\ "error" \in DOMAIN result[c]
                   /\ result[c].error # None
                   /\ result[c].error # <<>>

\* C10: get_terraform_status reports terraform_available = True exactly
\* when the version check ran and ended with exit code 0.
C10_AvailableIffExitZero ==
    \A c \in Callers :
        (pc[c] = "done" /\ op[c] = "status") =>
            /\ Returned(c)
            /\ result[c].terraform_available
                   = (outcome[c].kind = "exit" /\ outcome[c].code = 0)

\* Available after exit code 0, and not available after exit code 1 with a
\* version on stdout.
C10_Witness ==
    /\ Completed("c1") /\ op["c1"] = "status" /\ outcome["c1"].code = 0
    /\ result["c1"].terraform_available = TRUE
    /\ Completed("c2") /\ op["c2"] = "status" /\ outcome["c2"].code = 1
    /\ outcome["c2"].stdout # <<>>
    /\ result["c2"].terraform_available = FALSE

\* C11 (as claimed): for every exit code of the version check and every
\* state of the marker directory, the value of get_terraform_status reports
\* initialized equal to the existence of the marker directory.
C11_InitializedIsMarker ==
    \A c \in Callers :
        (Completed(c) /\ op[c] = "status") =>
            /\ Returned(c)
            /\ "initialized" \in DOMAIN result[c]
            /\ result[c].initialized = outcome[c].marker

\* The first line of a text: what precedes its first line feed.
RECURSIVE FirstLine(_)
FirstLine(s) ==
    IF s = <<>> \/ Head(s) = 10 THEN <<>>
    ELSE <<Head(s)>> \o FirstLine(Tail(s))

\* C12 (as claimed): when the version check exits 0, version is the first
\* line of the captured stdout.
C12_VersionIsFirstLine ==
    \A c \in Callers :
        (Completed(c) /\ op[c] = "status" /\ outcome[c].code = 0) =>
            /\ Returned(c)
            /\ result[c].version = FirstLine(outcome[c].stdout)

\* A well-formed state document with no resource in its root module: the
\* list is empty, or one of the keys 'values', 'root_module', 'resources'
\* is missing.
ZeroResourceDoc(d) ==
    /\ d.wf /\ d.top = "object" /\ d.values # "null"
    /\ \/ d.values = "absent"
       \/ d.root = "absent"
       \/ ~d.hasResources
       \/ d.resources = <<>>

\* C13: get_terraform_state on a well-formed state document with zero
\* resources returns success with resources = 0 and an empty
\* resource_list, which is not the value returned for a malformed document.
C13_ZeroResources ==
    \A c \in Callers :
        (Completed(c) /\ op[c] = "state" /\ outcome[c].code = 0
            /\ ZeroResourceDoc(outcome[c].doc)) =>
            /\ Returned(c)
            /\ result[c].success = TRUE
            /\ result[c].resources = 0
            /\ result[c].resource_list = <<>>
            /\ result[c] # [success |-> FALSE, error |-> StateParseMsg]

\* One caller has the snapshot of a document without 'root_module', the
\* other the failure of a malformed document.
C13_Witness ==
    /\ Completed("c1") /\ op["c1"] = "state" /\ outcome["c1"].code = 0
    /\ outcome["c1"].doc.wf /\ outcome["c1"].doc.values = "object"
    /\ outcome["c1"].doc.root = "absent"
    /\ result["c1"].success = TRUE /\ result["c1"].resources = 0
    /\ Completed("c2") /\ op["c2"] = "state" /\ outcome["c2"].code = 0
    /\ ~outcome["c2"].doc.wf
    /\ result["c2"] = [success |-> FALSE, error |-> StateParseMsg]

\* The document is well-formed JSON of the shape the operation expects: an
\* object (for the state document, with 'values' not null).
ExpectedShape(o, d) ==
    /\ d.wf
    /\ d.top = "object"
    /\ o = "state" => d.values # "null"

\* The errors get_terraform_state / get_terraform_outputs return when the
\* process exits nonzero, over the tool's texts (the empty stderr included).
ProcessFailureErrors(o) ==
    {Operation(o, x).value.error : x \in {y \in ExitOutcomes(o) : y.code # 0}}

\* C14 (as claimed): for get_terraform_state and get_terraform_outputs, exit
\* code 0 with a stdout that is not a well-formed document of the expected
\* shape, and a nonzero exit, are both returned as failures, and the error
\* of the first is none of the errors of the second.
C14_ParseVsProcessFailure ==
    \A c \in Callers :
        (Completed(c) /\ op[c] \in {"state", "outputs"}) =>
            /\ Returned(c)
            /\ outcome[c].code # 0 => result[c].success = FALSE
            /\ (outcome[c].code = 0
                    /\ ~ExpectedShape(op[c], outcome[c].doc)) =>
                   /\ result[c].success = FALSE
                   /\ result[c].error \notin ProcessFailureErrors(op[c])

C19_FailureErrorSanitized ==
    \A c \in Callers :
        (pc[c] = "done" /\ FailedCall(c)) =>
            /\ Returned(c)
            /\ Flag(c) = FALSE
            /\ ~HasAnsi(result[c].error)

\* trigger_terraform(a) by caller c starts a child process.
StartsChild(c, a) ==
    /\ TriggerTerraform(c, a)
    /\ pc'[c] = "running"
    /\ proc'[c] = "running"
    /\ argv'[c] = Argv(a)

\* C20: calls are neither serialized, queued nor rejected: a caller that
\* is not inside a call can start apply and destroy whatever the other
\* caller is doing, also while the other caller's child is running.
C20_NoSerialization ==
    \A c \in Callers :
        pc[c] = "idle" =>
            /\ ENABLED StartsChild(c, "apply")
            /\ ENABLED StartsChild(c, "destroy")

\* Two children in flight, both "terraform apply -auto-approve tfplan".
C20_Witness ==
    /\ pc["c1"] = "running" /\ proc["c1"] = "running"
    /\ pc["c2"] = "running" /\ proc["c2"] = "running"
    /\ argv["c1"] = <<"terraform", "apply", "-auto-approve", "tfplan">>
    /\ argv["c2"] = argv["c1"]

----------------------------------------------------------------------------
(* One caller against a well-behaved tool and its working directory *)

\* Most resources the configuration declares.
MaxResources == 2

\* The caller of the end-to-end scenario.
ToolCaller == "c1"

\* Addresses of the resources of the configuration, all in its root module.
ResourceAddresses ==
    <<"aws_lambda_function.demo", "aws_s3_bucket.demo",
      "aws_cloudwatch_log_group.demo", "aws_iam_role.demo">>

\* What "terraform show -json" prints for a state with n resources: without
\* 'values' for an empty state, else the resources of the root module.
StateDoc(n) ==
    IF n = 0 THEN Doc(TRUE, "object", "absent", "absent", FALSE, <<>>, 0)
    ELSE Doc(TRUE, "object", "object", "object", TRUE,
             SubSeq(ResourceAddresses, 1, n), 0)

\* A response of the tool: what subprocess.run gets, and the working
\* directory the process leaves behind.
Response(out, plan, n) == [out |-> out, tfplan |-> plan, deployed |-> n]

\* The responses of a well-behaved tool to an operation in a working
\* directory.  plan: exit 0 leaves the artifact.  apply: without the
\* artifact the tool errors; with it, exit 0 leaves one resource or more,
\* a failure leaves any number from the present one up.  destroy: exit 0
\* leaves none, a failure any number up to the present one.  show: exit 0
\* prints the state.  version, output: the directory is not touched.
ToolResponses(o, plan, n) ==
    IF o = "plan" THEN
        {Response(x, plan \/ x.code = 0, n) : x \in ExitOutcomes(o)}
    ELSE IF o = "apply" THEN
        {r \in {Response(x, plan, m) :
                    x \in ExitOutcomes(o), m \in 0..MaxResources} :
            /\ ~plan => (r.out.code # 0 /\ r.deployed = n)
            /\ r.out.code = 0 => r.deployed >= 1
            /\ r.out.code # 0 => r.deployed >= n}
    ELSE IF o = "destroy" THEN
        {r \in {Response(x, plan, m) :
                    x \in ExitOutcomes(o), m \in 0..MaxResources} :
            /\ r.out.code = 0 => r.deployed = 0
            /\ r.out.code # 0 => r.deployed <= n}
    ELSE IF o = "state" THEN
        {Response(Exited(code, <<>>, err,
                         IF code = 0 THEN StateDoc(n) ELSE NoDoc, FALSE),
                  plan, n) :
            code \in ExitCodes, err \in ToolTexts}
    ELSE IF o = "outputs" THEN
        {Response(Exited(code, <<>>, err,
                         IF code = 0 THEN StateDoc(0) ELSE NoDoc, FALSE),
                  plan, n) :
            code \in ExitCodes, err \in ToolTexts}
    ELSE {Response(x, plan, n) : x \in ExitOutcomes(o)}

\* What a killed process may leave behind: plan may or may not have written
\* the artifact, apply and destroy may have done part of their work.
KilledResponses(o, plan, n) ==
    LET out == Raised(Exc("TimeoutExpired", TimeoutExpiredStr(o)))
    IN  IF o = "plan" THEN {Response(out, b, n) : b \in {plan, TRUE}}
        ELSE IF o = "apply" /\ plan
            THEN {Response(out, plan, m) : m \in n..MaxResources}
        ELSE IF o = "destroy"
            THEN {Response(out, plan, m) : m \in 0..n}
        ELSE {Response(out, plan, n)}

\* The flag of the value the operation returns for a response.
Succeeded(o, out) ==
    LET r == Operation(o, out)
    IN  /\ r.raised = NoExc
        /\ IF o = "status" THEN r.value.terraform_available
           ELSE r.value.success

\* The end-to-end scenario, counted in steps: 1 get_terraform_status
\* (available), 2 plan, 3 apply, 4 get_terraform_state, 5 destroy,
\* 6 get_terraform_state, each returning success.  A call that ran the
\* tool's plan, apply or destroy out of turn, or without success, starts
\* the count again; the calls that only read leave it.
NextStage(st, o, ok) ==
    IF o = "status" THEN (IF st = 0 /\ ok THEN 1 ELSE st)
    ELSE IF o = "plan" THEN (IF st = 1 /\ ok THEN 2 ELSE 0)
    ELSE IF o = "apply" THEN (IF st = 2 /\ ok THEN 3 ELSE 0)
    ELSE IF o = "destroy" THEN (IF st = 4 /\ ok THEN 5 ELSE 0)
    ELSE IF o = "state" THEN
        (IF st = 3 /\ ok THEN 4 ELSE IF st = 5 /\ ok THEN 6 ELSE st)
    ELSE st

ToolInit ==
    /\ IdleInit
    /\ StripIdle
    /\ Closed(Pages)
    /\ tfplan \in BOOLEAN
    /\ deployed \in 0..MaxResources
    /\ scenario = 0

\* The child exits within the timeout, having done its work.
ToolExit(c) ==
    /\ pc[c] = "running"
    /\ \E r \in ToolResponses(op[c], tfplan, deployed) :
           /\ Finish(c, op[c], r.out, "exited", runs[c])
           /\ tfplan' = r.tfplan
           /\ deployed' = r.deployed
           /\ scenario' = NextStage(scenario, op[c], Succeeded(op[c], r.out))
    /\ UNCHANGED <<op, action, argv>>
    /\ UNCHANGED stripVars
    /\ UNCHANGED appVars

\* The timeout expires and the child is killed in the middle of its work.
ToolTimeout(c) ==
    /\ pc[c] = "running"
    /\ \E r \in KilledResponses(op[c], tfplan, deployed) :
           /\ Finish(c, op[c], r.out, ChildAfterTimeout, runs[c])
           /\ tfplan' = r.tfplan
           /\ deployed' = r.deployed
           /\ scenario' = NextStage(scenario, op[c], FALSE)
    /\ UNCHANGED <<op, action, argv>>
    /\ UNCHANGED stripVars
    /\ UNCHANGED appVars

ToolNext ==
    \/ \E a \in ActionArgs : TriggerTerraform(ToolCaller, a)
    \/ \E o \in DirectOps : CallDirect(ToolCaller, o)
    \/ ToolExit(ToolCaller)
    \/ ToolTimeout(ToolCaller)
    \/ Finished(ToolCaller)

SpecTool == ToolInit /\ [][ToolNext]_vars

----------------------------------------------------------------------------
(* Properties of the calls against the working directory *)

\* C15: terraform_apply runs the apply subcommand on the artifact 'tfplan'
\* and nothing else, once; it never writes the artifact (no plan is made
\* for it); without the artifact the tool's error comes back as
\* success = False with the tool's stderr.
C15_ApplyNeverPlans ==
    \A c \in Callers :
        (pc[c] # "idle" /\ op[c] = "apply") =>
            /\ argv[c] = <<"terraform", "apply", "-auto-approve", "tfplan">>
            /\ runs[c] = 1
            /\ (Completed(c) /\ ~tfplan) =>
                   /\ Returned(c)
                   /\ result[c].success = FALSE
                   /\ result[c].error = strip_ansi_codes(outcome[c].stderr)

\* Apply after no plan at all: the artifact is missing, the tool exits 1.
C15_Witness ==
    /\ Completed(ToolCaller) /\ op[ToolCaller] = "apply"
    /\ ~tfplan /\ deployed = 0
    /\ outcome[ToolCaller].code = 1
    /\ result[ToolCaller].success = FALSE

\* C16: destroy is started unconditionally: from every working directory
\* (artifact or not, resources or not, any step of the scenario) a caller
\* that is not inside a call starts "terraform destroy -auto-approve" with
\* trigger_terraform("destroy"), and that is the only process of the call.
C16_DestroyUnconditional ==
    /\ pc[ToolCaller] = "idle" => ENABLED StartsChild(ToolCaller, "destroy")
    /\ \A c \in Callers :
           (pc[c] # "idle" /\ op[c] = "destroy") =>
               /\ argv[c] = <<"terraform", "destroy", "-auto-approve">>
               /\ runs[c] = 1

\* Destroy in flight with no plan ever made and nothing deployed.
C16_Witness ==
    /\ pc[ToolCaller] = "running" /\ proc[ToolCaller] = "running"
    /\ op[ToolCaller] = "destroy"
    /\ ~tfplan /\ deployed = 0 /\ scenario = 0

\* C17: in the scenario get_terraform_status (available), plan (success),
\* apply (success), get_terraform_state, the artifact exists from the plan
\* on and the snapshot counts one resource or more; after a following
\* destroy (success), get_terraform_state counts none.
C17_EndToEnd ==
    /\ scenario \in {2, 3} => tfplan
    /\ \A c \in Callers :
           (Completed(c) /\ op[c] = "state" /\ outcome[c].code = 0) =>
               /\ scenario = 4 =>
                      /\ Returned(c) /\ result[c].success = TRUE
                      /\ result[c].resources > 0
                      /\ Len(result[c].resource_list) = deployed
               /\ scenario = 6 =>
                      /\ Returned(c) /\ result[c].success = TRUE
                      /\ result[c].resources = 0
                      /\ result[c].resource_list = <<>>

\* The whole scenario has run: the snapshot after destroy is there.
C17_Witness ==
    /\ scenario = 6
    /\ Completed(ToolCaller) /\ op[ToolCaller] = "state"
    /\ result[ToolCaller].success = TRUE
    /\ result[ToolCaller].resources = 0

----------------------------------------------------------------------------
(* Properties of the state snapshot (Spec) *)

\* The 'resources' of the root module of a state document, in document
\* order; none when the document has no such list.
RootResources(d) ==
    IF d.values = "object" /\ d.root = "object" /\ d.hasResources
    THEN d.resources ELSE <<>>

\* C28: whenever get_terraform_state returns success, 'resources' is the
\* length of 'resource_list', the list holds the addresses of the root
\* module's resources in document order, with 'Unknown' for a resource
\* without an address, and the resources of child modules are not counted.
C28_SnapshotCountsRootModule ==
    \A c \in Callers :
        (Returned(c) /\ op[c] = "state" /\ result[c].success) =>
            LET root == RootResources(outcome[c].doc)
                v == result[c]
            IN  /\ v.resources = Len(v.resource_list)
                /\ Len(v.resource_list) = Len(root)
                /\ \A i \in 1..Len(root) :
                      /\ root[i] # "" => v.resource_list[i] = root[i]
                      /\ root[i] = "" => v.resource_list[i] = "Unknown"

\* The snapshot of a document whose root module has three resources, the
\* second without an address, and whose child module has one more.
C28_Witness ==
    /\ Returned("c1") /\ op["c1"] = "state" /\ result["c1"].success
    /\ outcome["c1"].doc.child = 1
    /\ result["c1"].resources = 3
    /\ result["c1"].resource_list =
          <<"aws_s3_bucket.demo", "Unknown", "aws_lambda_function.demo">>

----------------------------------------------------------------------------
(* Resource inventory (app/aws_inventory.py)                               *)
(*                                                                         *)
(* A response of the AWS client is the dictionary boto3 returns, as a      *)
(* function whose DOMAIN is the dictionary's keys.  Identifiers, states    *)
(* and regions are strings; messages and formatted dates are text.         *)

\* "Failed to retrieve EC2 instances: "
Ec2ErrorPrefix ==
    <<70, 97, 105, 108, 101, 100, 32, 116, 111, 32, 114, 101, 116, 114,
      105, 101, 118, 101, 32, 69, 67, 50, 32, 105, 110, 115, 116, 97, 110,
      99, 101, 115, 58, 32>>

\* "Failed to retrieve S3 buckets: "
S3ErrorPrefix ==
    <<70, 97, 105, 108, 101, 100, 32, 116, 111, 32, 114, 101, 116, 114,
      105, 101, 118, 101, 32, 83, 51, 32, 98, 117, 99, 107, 101, 116, 115,
      58, 32>>

\* str(NoCredentialsError()): "Unable to locate credentials"
NoCredentialsStr ==
    <<85, 110, 97, 98, 108, 101, 32, 116, 111, 32, 108, 111, 99, 97, 116,
      101, 32, 99, 114, 101, 100, 101, 110, 116, 105, 97, 108, 115>>

\* str(ClientError(...)): "An error occurred (AccessDenied): Access Denied"
AccessDeniedStr ==
    <<65, 110, 32, 101, 114, 114, 111, 114, 32, 111, 99, 99, 117, 114, 114,
      101, 100, 32, 40, 65, 99, 99, 101, 115, 115, 68, 101, 110, 105, 101,
      100, 41, 58, 32, 65, 99, 99, 101, 115, 115, 32, 68, 101, 110, 105,
      101, 100>>

\* "Failed to get resource summary: "
SummaryErrorPrefix ==
    <<70, 97, 105, 108, 101, 100, 32, 116, 111, 32, 103, 101, 116, 32,
      114, 101, 115, 111, 117, 114, 99, 101, 32, 115, 117, 109, 109, 97,
      114, 121, 58, 32>>

\* Instances in one describe_instances response; buckets in one listing.
MaxInstances == 2
MaxBuckets == 2

\* What the AWS client raises, and what the code's "except Exception"
\* catches: the client cannot be made, or the service refuses the call.
AwsErrors ==
    { Exc("NoCredentialsError", NoCredentialsStr),
      Exc("ClientError", AccessDeniedStr) }

\* sub in s
Contains(s, sub) ==
    \E i \in 0..(Len(s) - Len(sub)) : SubSeq(s, i + 1, i + Len(sub)) = sub

\* Two decimal digits.
Digits2(n) == <<48 + ((n \div 10) % 10), 48 + (n % 10)>>

\* dt.strftime('%Y-%m-%d') and dt.strftime('%Y-%m-%d %H:%M:%S')
DateText(dt) ==
    Digits2(dt.Y \div 100) \o Digits2(dt.Y % 100)
        \o <<45>> \o Digits2(dt.M) \o <<45>> \o Digits2(dt.D)
DateTimeText(dt) ==
    DateText(dt) \o <<32>> \o Digits2(dt.h) \o <<58>> \o Digits2(dt.m)
                 \o <<58>> \o Digits2(dt.s)

DateTime(Y, M, D, h, m, s) == [Y |-> Y, M |-> M, D |-> D, h |-> h, m |-> m, s |-> s]

\* The instances a response may hold: one without 'Tags', running, with
\* every optional key; one with an empty tag list, stopped, without the
\* optional keys; one with two 'Name' tags behind another tag; one whose
\* only tag is 'name' in lower case, pending.
InstanceKinds ==
    { [InstanceId |-> "i-1", InstanceType |-> "t3.micro",
       State |-> [Name |-> "running"],
       Placement |-> [AvailabilityZone |-> "ap-southeast-1a"],
       PrivateIpAddress |-> "10.0.0.1", PublicIpAddress |-> "54.0.0.1",
       LaunchTime |-> DateTime(2024, 1, 15, 10, 30, 0)],
      [InstanceId |-> "i-2", InstanceType |-> "t3.small",
       State |-> [Name |-> "stopped"],
       Placement |-> [AvailabilityZone |-> "ap-southeast-1b"],
       Tags |-> <<>>],
      [InstanceId |-> "i-3", InstanceType |-> "t3.micro",
       State |-> [Name |-> "running"],
       Placement |-> [AvailabilityZone |-> "ap-southeast-1a"],
       Tags |-> << [Key |-> "env", Value |-> "prod"],
                   [Key |-> "Name", Value |-> "web"],
                   [Key |-> "Name", Value |-> "db"] >>,
       LaunchTime |-> DateTime(2023, 12, 31, 23, 59, 59)],
      [InstanceId |-> "i-4", InstanceType |-> "m5.large",
       State |-> [Name |-> "pending"],
       Placement |-> [AvailabilityZone |-> "ap-southeast-1c"],
       Tags |-> << [Key |-> "name", Value |-> "lower"] >>] }

\* The reservation lists that hold n instances in all; a reservation holds
\* at least one instance.
RECURSIVE ReservationLists(_)
ReservationLists(n) ==
    IF n = 0 THEN {<<>>}
    ELSE UNION { { << [Instances |-> r] >> \o rest :
                       r \in [1..k -> InstanceKinds],
                       rest \in ReservationLists(n - k) } : k \in 1..n }

\* What list_ec2_instances meets: get_boto3_client raises, describe_instances
\* raises, or describe_instances returns a response.
Ec2Apis ==
    {[kind |-> "client_error", exc |-> e] : e \in AwsErrors}
    \cup {[kind |-> "call_error", exc |-> e] : e \in AwsErrors}
    \cup {[kind |-> "ok", response |-> [Reservations |-> rs]] :
            rs \in UNION {ReservationLists(n) : n \in 0..MaxInstances}}

\* FirstNameTag without the break: the last 'Name' tag wins.
RECURSIVE FirstNameTag_Last(_)
FirstNameTag_Last(tags) ==
    IF tags = <<>> THEN "N/A"
    ELSE IF tags[Len(tags)].Key = "Name" THEN tags[Len(tags)].Value
    ELSE FirstNameTag_Last(SubSeq(tags, 1, Len(tags) - 1))

\* Lines 25-30: the value of the first tag whose key is 'Name'.
RECURSIVE FirstNameTag(_)
FirstNameTag(tags) ==
    IF tags = <<>> THEN "N/A"
    ELSE IF Head(tags).Key = "Name" THEN Head(tags).Value
    ELSE FirstNameTag(Tail(tags))

\* Lines 25-41: the record appended for one instance; <<78, 47, 65>> is
\* "N/A" where a formatted date is expected.
InstanceRecord(instance) ==
    ("Instance ID" :> instance.InstanceId)
    @@ ("Name" :> IF "Tags" \in DOMAIN instance
                  THEN FirstNameTag(instance.Tags) ELSE "N/A")
    @@ ("Type" :> instance.InstanceType)
    @@ ("State" :> instance.State.Name)
    @@ ("AZ" :> instance.Placement.AvailabilityZone)
    @@ ("Private IP" :> IF "PrivateIpAddress" \in DOMAIN instance
                        THEN instance.PrivateIpAddress ELSE "N/A")
    @@ ("Public IP" :> IF "PublicIpAddress" \in DOMAIN instance
                       THEN instance.PublicIpAddress ELSE "N/A")
    @@ ("Launch Time" :> IF "LaunchTime" \in DOMAIN instance
                         THEN DateTimeText(instance.LaunchTime)
                         ELSE <<78, 47, 65>>)

\* Lines 21-41: the two loops, over the reservations and their instances.
RECURSIVE InstanceRecords(_)
InstanceRecords(reservations) ==
    IF reservations = <<>> THEN <<>>
    ELSE [i \in 1..Len(Head(reservations).Instances) |->
              InstanceRecord(Head(reservations).Instances[i])]
         \o InstanceRecords(Tail(reservations))

\* The one-entry list returned by an "except Exception" clause.
ErrorList(prefix, e) == << [Error |-> prefix \o e.msg] >>

\* list_ec2_instances with the client made in front of the try block.
list_ec2_instances_ClientOutsideTry(api) ==
    IF api.kind = "ok" THEN Return(InstanceRecords(api.response.Reservations))
    ELSE IF api.kind = "client_error" THEN Raise(api.exc)
    ELSE Return(ErrorList(Ec2ErrorPrefix, api.exc))

\* list_ec2_instances(): the try block of lines 18-44 returns the records;
\* whatever it raises, the client's construction included, is caught at
\* line 45 and returned as a one-entry list.
list_ec2_instances(api) ==
    IF api.kind = "ok" THEN Return(InstanceRecords(api.response.Reservations))
    ELSE Return(ErrorList(Ec2ErrorPrefix, api.exc))

\* A Python value that is None or a string.
NoneValue == [isNone |-> TRUE, str |-> ""]
Str(s) == [isNone |-> FALSE, str |-> s]

\* What get_bucket_location produces for one bucket: a location constraint
\* (None for the default region, a region name, the empty string) or an
\* exception.
LookupOutcomes ==
    { [kind |-> "ok", response |-> [LocationConstraint |-> NoneValue]],
      [kind |-> "ok", response |-> [LocationConstraint |-> Str("eu-west-1")]],
      [kind |-> "ok", response |-> [LocationConstraint |-> Str("")]],
      [kind |-> "error", exc |-> Exc("ClientError", AccessDeniedStr)] }

\* What list_s3_buckets meets: get_boto3_client raises, list_buckets raises,
\* or list_buckets returns a listing of n buckets and every bucket's lookup
\* has an outcome.
S3Apis ==
    {[kind |-> "client_error", exc |-> e] : e \in AwsErrors}
    \cup {[kind |-> "call_error", exc |-> e] : e \in AwsErrors}
    \cup UNION { {[kind |-> "ok",
                   response |-> [Buckets |->
                       [i \in 1..n |->
                           [Name |-> <<"alpha-logs", "beta-data",
                                       "gamma-site", "delta-tmp">>[i],
                            CreationDate |->
                                DateTime(2024, i, 28, 8, 0, 0)]]],
                   locations |-> l] : l \in [1..n -> LookupOutcomes]} :
                 n \in 0..MaxBuckets }

\* BucketRegion that tests the constraint's truth ("if not bucket_region")
\* instead of its identity with None.
BucketRegion_Falsy(constraint) ==
    IF constraint.isNone \/ constraint.str = "" THEN "us-east-1"
    ELSE constraint.str

\* Lines 63-64
BucketRegion(constraint) ==
    IF constraint.isNone THEN "us-east-1" ELSE constraint.str

\* Lines 60-79: the entry appended for one bucket, from its lookup.
BucketEntry(bucket, lookup) ==
    ("Bucket Name" :> bucket.Name)
    @@ ("Created On" :> DateText(bucket.CreationDate))
    @@ ("Region" :> IF lookup.kind = "ok"
                    THEN BucketRegion(lookup.response.LocationConstraint)
                    ELSE "Unknown")

\* S3Try without the inner try block: a failed lookup leaves the loop.
S3Try_AbortOnLookupError(api) ==
    IF api.kind # "ok" THEN Raise(api.exc)
    ELSE IF \E i \in 1..Len(api.response.Buckets) : api.locations[i].kind # "ok"
    THEN Raise(api.locations[
             CHOOSE i \in 1..Len(api.response.Buckets) :
                 /\ api.locations[i].kind # "ok"
                 /\ \A j \in 1..(i - 1) : api.locations[j].kind = "ok"].exc)
    ELSE Return([i \in 1..Len(api.response.Buckets) |->
                     BucketEntry(api.response.Buckets[i], api.locations[i])])

\* Lines 55-82: the try block of list_s3_buckets.
S3Try(api) ==
    IF api.kind = "ok"
    THEN Return([i \in 1..Len(api.response.Buckets) |->
                     BucketEntry(api.response.Buckets[i], api.locations[i])])
    ELSE Raise(api.exc)

\* list_s3_buckets()
list_s3_buckets(api) ==
    LET r == S3Try(api)
    IN  IF IsException(r.raised)
        THEN Return(ErrorList(S3ErrorPrefix, r.raised))
        ELSE r

\* WithoutError that keeps every entry: len(entries).
WithoutError_All(entries) == 1..Len(entries)

\* len([x for x in entries if ...]): the positions that satisfy the test.
WithoutError(entries) == {i \in 1..Len(entries) : "Error" \notin DOMAIN entries[i]}

\* get_resource_summary(): lines 93-112.  Neither listing function raises,
\* so the except clause of lines 110-112 is not entered.
get_resource_summary(ec2, s3, now) ==
    LET e == list_ec2_instances(ec2)
        b == list_s3_buckets(s3)
        ec2_instances == e.value
        s3_buckets == b.value
        InState(state) ==
            {i \in 1..Len(ec2_instances) :
                /\ "State" \in DOMAIN ec2_instances[i]
                /\ ec2_instances[i].State = state}
    IN  IF IsException(e.raised)
        THEN Return([Error |-> SummaryErrorPrefix \o e.raised.msg])
        ELSE IF IsException(b.raised)
        THEN Return([Error |-> SummaryErrorPrefix \o b.raised.msg])
        ELSE Return(
            ("Total EC2 Instances" :> Cardinality(WithoutError(ec2_instances)))
            @@ ("Running Instances" :>
                    Cardinality(InState("running")))
            @@ ("Stopped Instances" :>
                    Cardinality(InState("stopped")))
            @@ ("Total S3 Buckets" :> Cardinality(WithoutError(s3_buckets)))
            @@ ("Last Updated" :> DateTimeText(now)))

\* The inventory page: the AWS account answers as ec2Api and s3Api say.
InvInit ==
    /\ IdleInit
    /\ StripIdle
    /\ ToolIdle
    /\ ec2Api \in Ec2Apis
    /\ s3Api \in S3Apis
    /\ ec2Result = Pending
    /\ s3Result = Pending
    /\ summary = Pending
    /\ Closed(Pages \ {"inventory"})

ListEc2Instances ==
    /\ ~ec2Result.done
    /\ ec2Result' = Done(list_ec2_instances(ec2Api))
    /\ UNCHANGED <<ec2Api, s3Api, s3Result, summary>>
    /\ UNCHANGED <<callVars, stripVars, toolVars, dashVars>>
    /\ UNCHANGED <<ceApi, costResult, logsApi, logsResult>>

ListS3Buckets ==
    /\ ~s3Result.done
    /\ s3Result' = Done(list_s3_buckets(s3Api))
    /\ UNCHANGED <<ec2Api, s3Api, ec2Result, summary>>
    /\ UNCHANGED <<callVars, stripVars, toolVars, dashVars>>
    /\ UNCHANGED <<ceApi, costResult, logsApi, logsResult>>

GetResourceSummary ==
    /\ ~summary.done
    /\ \E now \in {DateTime(2024, 6, 1, 12, 0, 0), DateTime(2024, 6, 1, 12, 0, 1)} :
           summary' = Done(get_resource_summary(ec2Api, s3Api, now))
    /\ UNCHANGED <<ec2Api, s3Api, ec2Result, s3Result>>
    /\ UNCHANGED <<callVars, stripVars, toolVars, dashVars>>
    /\ UNCHANGED <<ceApi, costResult, logsApi, logsResult>>

InvNext == ListEc2Instances \/ ListS3Buckets \/ GetResourceSummary

SpecInventory == InvInit /\ [][InvNext]_vars

----------------------------------------------------------------------------
(* Properties of the resource inventory (SpecInventory) *)

ApiFailed(api) == api.kind \in {"client_error", "call_error"}

\* The value is a list of exactly one entry whose 'Error' text holds msg.
OneErrorEntry(v, msg) ==
    /\ Len(v) = 1
    /\ "Error" \in DOMAIN v[1]
    /\ Contains(v[1].Error, msg)

\* C21: list_ec2_instances and list_s3_buckets never raise; when the client
\* cannot be obtained or the listing call raises, each returns a list of
\* exactly one entry with an 'Error' key whose text contains the exception's
\* message.
C21_ListingsNeverRaise ==
    /\ ec2Result.done =>
          /\ ec2Result.value.raised = NoExc
          /\ ApiFailed(ec2Api) =>
                OneErrorEntry(ec2Result.value.value, ec2Api.exc.msg)
    /\ s3Result.done =>
          /\ s3Result.value.raised = NoExc
          /\ ApiFailed(s3Api) =>
                OneErrorEntry(s3Result.value.value, s3Api.exc.msg)

\* Both listings were made, the EC2 client could not be obtained and the
\* bucket listing call failed.
C21_Witness ==
    /\ ec2Result.done /\ ec2Api.kind = "client_error"
    /\ s3Result.done /\ s3Api.kind = "call_error"
    /\ OneErrorEntry(s3Result.value.value, AccessDeniedStr)

\* The bucket listing returned a list of bucket entries.
S3Listed == s3Result.done /\ s3Api.kind = "ok" /\ s3Result.value.raised = NoExc

\* C22: list_s3_buckets reports Region 'us-east-1' for every bucket whose
\* location constraint is None and the returned location constraint,
\* unchanged, for every other bucket whose lookup returned one.
C22_RegionOfBucket ==
    S3Listed =>
        \A i \in 1..Len(s3Api.response.Buckets) :
            s3Api.locations[i].kind = "ok" =>
                LET constraint == s3Api.locations[i].response.LocationConstraint
                    entry == s3Result.value.value[i]
                IN  /\ i <= Len(s3Result.value.value)
                    /\ entry["Bucket Name"] = s3Api.response.Buckets[i].Name
                    /\ constraint.isNone => entry["Region"] = "us-east-1"
                    /\ ~constraint.isNone => entry["Region"] = constraint.str

\* A listing of two buckets was reported: one with the constraint None, one
\* with the empty string as its constraint.
C22_Witness ==
    /\ S3Listed
    /\ Len(s3Api.response.Buckets) = 2
    /\ s3Api.locations[1].kind = "ok" /\ s3Api.locations[2].kind = "ok"
    /\ s3Api.locations[1].response.LocationConstraint = NoneValue
    /\ s3Api.locations[2].response.LocationConstraint = Str("")
    /\ s3Result.value.value[1]["Region"] = "us-east-1"

\* The number of entries of a list that have no 'Error' key, and the number
\* whose 'State' is state, counted entry by entry.
RECURSIVE CountWithoutError(_)
CountWithoutError(entries) ==
    IF entries = <<>> THEN 0
    ELSE (IF "Error" \in DOMAIN Head(entries) THEN 0 ELSE 1)
         + CountWithoutError(Tail(entries))

RECURSIVE CountState(_, _)
CountState(entries, state) ==
    IF entries = <<>> THEN 0
    ELSE (IF "State" \in DOMAIN Head(entries) /\ Head(entries)["State"] = state
          THEN 1 ELSE 0)
         + CountState(Tail(entries), state)

\* C23: get_resource_summary counts the listed entries: the instance entries
\* without an 'Error' key, those whose State is 'running' and 'stopped', and
\* the bucket entries without an 'Error' key; an entry with an 'Error' key
\* is counted nowhere.
C23_SummaryCounts ==
    (summary.done /\ ec2Result.done /\ s3Result.done) =>
        LET instances == ec2Result.value.value
            buckets == s3Result.value.value
            v == summary.value.value
        IN  /\ summary.value.raised = NoExc
            /\ "Error" \notin DOMAIN v
            /\ v["Total EC2 Instances"] = CountWithoutError(instances)
            /\ v["Running Instances"] = CountState(instances, "running")
            /\ v["Stopped Instances"] = CountState(instances, "stopped")
            /\ v["Total S3 Buckets"] = CountWithoutError(buckets)
            /\ ApiFailed(ec2Api) =>
                  /\ v["Total EC2 Instances"] = 0
                  /\ v["Running Instances"] = 0
                  /\ v["Stopped Instances"] = 0
            /\ ApiFailed(s3Api) => v["Total S3 Buckets"] = 0

\* A summary over a failed instance listing and two listed buckets.
C23_Witness ==
    /\ summary.done /\ ec2Result.done /\ s3Result.done
    /\ ApiFailed(ec2Api)
    /\ s3Api.kind = "ok"
    /\ summary.value.value["Total EC2 Instances"] = 0
    /\ summary.value.value["Total S3 Buckets"] = 2

\* The instances of a response, reservation after reservation.
RECURSIVE AllInstances(_)
AllInstances(reservations) ==
    IF reservations = <<>> THEN <<>>
    ELSE Head(reservations).Instances \o AllInstances(Tail(reservations))

\* The positions of the tags whose key is 'Name'.
NameTags(instance) ==
    IF "Tags" \in DOMAIN instance
    THEN {j \in 1..Len(instance.Tags) : instance.Tags[j].Key = "Name"}
    ELSE {}

\* The instance listing returned a list of instance records.
Ec2Listed == ec2Result.done /\ ec2Api.kind = "ok" /\ ec2Result.value.raised = NoExc

C29_LookupFailureIsLocal ==
    (s3Result.done /\ s3Api.kind = "ok") =>
        LET listed == s3Api.response.Buckets
            entries == s3Result.value.value
        IN  /\ s3Result.value.raised = NoExc
            /\ Len(entries) = Len(listed)
            /\ \A i \in 1..Len(listed) :
                  /\ DOMAIN entries[i] = {"Bucket Name", "Created On", "Region"}
                  /\ entries[i]["Bucket Name"] = listed[i].Name
                  /\ entries[i]["Created On"] = DateText(listed[i].CreationDate)
                  /\ s3Api.locations[i].kind = "error" =>
                        entries[i]["Region"] = "Unknown"
                  /\ s3Api.locations[i].kind = "ok" =>
                        entries[i]["Region"] \in {"us-east-1", "eu-west-1", ""}

\* Two buckets were listed, the lookup of the first raised and the second
\* was answered.
C29_Witness ==
    /\ s3Result.done /\ s3Api.kind = "ok"
    /\ Len(s3Api.response.Buckets) = 2
    /\ s3Api.locations[1].kind = "error"
    /\ s3Api.locations[2].kind = "ok"
    /\ Len(s3Result.value.value) = 2
    /\ s3Result.value.value[1]["Region"] = "Unknown"
    /\ s3Result.value.value[2]["Region"] = "eu-west-1"

----------------------------------------------------------------------------
(* Cost breakdown by service (app/cost_explorer.py, get_cost_by_service)   *)
(*                                                                         *)
(* An amount is counted in units of 0.00001 USD: 'Amount' is a decimal     *)
(* numeral and float(...) its value.  No amount of the model ends in the   *)
(* digit 5, where round(cost, 4) depends on the binary value of the float. *)

\* "Failed to retrieve cost by service: "
CostErrorPrefix ==
    <<70, 97, 105, 108, 101, 100, 32, 116, 111, 32, 114, 101, 116, 114,
      105, 101, 118, 101, 32, 99, 111, 115, 116, 32, 98, 121, 32, 115, 101,
      114, 118, 105, 99, 101, 58, 32>>

\* Lines 105-108: the entry returned when Cost Explorer is not enabled,
\* "Cost Explorer not enabled" and "Please enable Cost Explorer in AWS
\* Billing Console and wait 24 hours for activation."
NotEnabledEntry ==
    [Error |->
        <<67, 111, 115, 116, 32, 69, 120, 112, 108, 111, 114, 101, 114, 32,
        110, 111, 116, 32, 101, 110, 97, 98, 108, 101, 100>>,
     Message |->
        <<80, 108, 101, 97, 115, 101, 32, 101, 110, 97, 98, 108, 101, 32, 67,
        111, 115, 116, 32, 69, 120, 112, 108, 111, 114, 101, 114, 32, 105,
        110, 32, 65, 87, 83, 32, 66, 105, 108, 108, 105, 110, 103, 32, 67,
        111, 110, 115, 111, 108, 101, 32, 97, 110, 100, 32, 119, 97, 105,
        116, 32, 50, 52, 32, 104, 111, 117, 114, 115, 32, 102, 111, 114, 32,
        97, 99, 116, 105, 118, 97, 116, 105, 111, 110, 46>>]

\* Service groups in one result period.
MaxGroups == 2

\* float(amount) > 0, and round(cost, 4), in units of 0.00001 USD.
Round4(cost) ==
    LET r == cost % 10
    IN  IF r < 5 THEN cost - r ELSE cost - r + 10

\* The amounts of a group: a credit of 1 USD, nothing, 0.00003 and 0.2 USD,
\* 1.00002 and 1.00003 USD (equal once rounded), 2.5 USD.
Amounts == {-100000, 0, 3, 20000, 100002, 100003, 250000}

\* The groups of a result period: sequences of n groups.
GroupLists(n) ==
    { [i \in 1..n |->
          [Keys |-> << <<"Amazon EC2", "Amazon S3", "AWS Lambda",
                         "Amazon CloudWatch">>[i] >>,
           Metrics |-> [UnblendedCost |-> [Amount |-> a[i]]]]] :
      a \in [1..n -> Amounts] }

\* What get_cost_by_service meets: the client cannot be made, the call is
\* refused (also with "User Not Enabled For Cost Explorer access"), or the
\* call returns no, one or two result periods; the second period has one
\* group of 9 USD.
CeApis ==
    {[kind |-> "client_error", exc |-> e] : e \in AwsErrors}
    \cup {[kind |-> "call_error", exc |-> e] :
            e \in AwsErrors \cup {Exc("ClientError",
                <<85, 115, 101, 114, 32, 78, 111, 116, 32, 69, 110, 97, 98,
                 108, 101, 100, 32, 70, 111, 114, 32, 67, 111, 115, 116, 32,
                 69, 120, 112, 108, 111, 114, 101, 114, 32, 97, 99, 99, 101,
                 115, 115>>)}}
    \cup {[kind |-> "ok", response |-> [ResultsByTime |-> <<>>]]}
    \cup UNION { {[kind |-> "ok", response |-> [ResultsByTime |-> ps]] :
                    ps \in UNION {
                        {<< [Groups |-> g] >>,
                         << [Groups |-> g],
                            [Groups |-> << [Keys |-> <<"Tax">>,
                                            Metrics |-> [UnblendedCost |->
                                                [Amount |-> 900000]]] >>] >>} :
                        g \in GroupLists(n) }} :
                 n \in 0..MaxGroups }

\* Lines 88-95: the entries of the groups with a cost above 0.
RECURSIVE BilledServices(_)
BilledServices(groups) ==
    IF groups = <<>> THEN <<>>
    ELSE LET group == Head(groups)
             cost == group.Metrics.UnblendedCost.Amount
         IN  (IF cost > 0
              THEN << ("Service" :> group.Keys[1])
                      @@ ("Cost (USD)" :> Round4(cost)) >>
              ELSE <<>>)
             \o BilledServices(Tail(groups))

\* SortByCost without reverse=True: lowest cost first.
RECURSIVE SortByCost_Ascending(_)
SortByCost_Ascending(services) ==
    IF services = <<>> THEN <<>>
    ELSE LET n == Len(services)
             sorted == SortByCost_Ascending(SubSeq(services, 1, n - 1))
             k == Cardinality({i \in 1..Len(sorted) :
                     sorted[i]["Cost (USD)"] <= services[n]["Cost (USD)"]})
         IN  SubSeq(sorted, 1, k) \o <<services[n]>>
             \o SubSeq(sorted, k + 1, Len(sorted))

\* Line 98: services.sort(key=cost, reverse=True), a stable sort: an entry
\* goes behind the k entries whose cost is at least its own, so entries of
\* equal cost keep their order.
RECURSIVE SortByCost(_)
SortByCost(services) ==
    IF services = <<>> THEN <<>>
    ELSE LET n == Len(services)
             sorted == SortByCost(SubSeq(services, 1, n - 1))
             k == Cardinality({i \in 1..Len(sorted) :
                     sorted[i]["Cost (USD)"] >= services[n]["Cost (USD)"]})
         IN  SubSeq(sorted, 1, k) \o <<services[n]>>
             \o SubSeq(sorted, k + 1, Len(sorted))

\* get_cost_by_service(): the try block of lines 67-100 returns the billed
\* services of the first result period, sorted; the except clause of lines
\* 102-111 tests str(e) for "AccessDeniedException" and str(e).lower() for
\* "not enabled for cost explorer".
get_cost_by_service(api) ==
    IF api.kind = "ok"
    THEN LET periods == api.response.ResultsByTime
         IN  Return(SortByCost(IF periods # <<>>
                               THEN BilledServices(periods[1].Groups)
                               ELSE <<>>))
    ELSE LET error_msg == api.exc.msg
             lower == [i \in 1..Len(error_msg) |->
                          IF error_msg[i] \in 65..90
                          THEN error_msg[i] + 32 ELSE error_msg[i]]
         IN  IF \/ Contains(error_msg,
                       <<65, 99, 99, 101, 115, 115, 68, 101, 110, 105, 101, 100, 69, 120, 99,
                       101, 112, 116, 105, 111, 110>>)
                \/ Contains(lower,
                       <<110, 111, 116, 32, 101, 110, 97, 98, 108, 101, 100, 32, 102, 111,
                       114, 32, 99, 111, 115, 116, 32, 101, 120, 112, 108, 111, 114, 101,
                       114>>)
             THEN Return(<< NotEnabledEntry >>)
             ELSE Return(ErrorList(CostErrorPrefix, api.exc))

CostInit ==
    /\ IdleInit
    /\ StripIdle
    /\ ToolIdle
    /\ Closed(Pages \ {"costs"})
    /\ ceApi \in CeApis
    /\ costResult = Pending

GetCostByService ==
    /\ ~costResult.done
    /\ costResult' = Done(get_cost_by_service(ceApi))
    /\ UNCHANGED ceApi
    /\ UNCHANGED <<callVars, stripVars, toolVars, dashVars>>
    /\ UNCHANGED <<ec2Api, s3Api, ec2Result, s3Result, summary,
                   logsApi, logsResult>>

SpecCost == CostInit /\ [][GetCostByService]_vars

----------------------------------------------------------------------------
(* Properties of the cost breakdown (SpecCost) *)

\* The groups of the first result period of the answer.
FirstPeriodGroups ==
    IF ceApi.response.ResultsByTime = <<>> THEN <<>>
    ELSE ceApi.response.ResultsByTime[1].Groups

\* The positions of the groups whose amount is above 0.
Billed == {i \in 1..Len(FirstPeriodGroups) :
              FirstPeriodGroups[i].Metrics.UnblendedCost.Amount > 0}

----------------------------------------------------------------------------
(* Log viewer (app/cloudwatch_logs.py, get_logs)                           *)
(*                                                                         *)
(* The returned string is one of six f-string templates; it is kept as the *)
(* template's name and the values filled in.  A timestamp is given as the  *)
(* local date and time it denotes.                                         *)

\* "Error fetching logs: "
LogsErrorPrefix ==
    <<69, 114, 114, 111, 114, 32, 102, 101, 116, 99, 104, 105, 110, 103,
      32, 108, 111, 103, 115, 58, 32>>

\* "ResourceNotFoundException"
ResourceNotFoundStr ==
    <<82, 101, 115, 111, 117, 114, 99, 101, 78, 111, 116, 70, 111, 117,
      110, 100, 69, 120, 99, 101, 112, 116, 105, 111, 110>>

\* str(UnboundLocalError) for the function's local name 'datetime' (line 58)
UnboundLocalStr ==
    <<99, 97, 110, 110, 111, 116, 32, 97, 99, 99, 101, 115, 115, 32, 108,
      111, 99, 97, 108, 32, 118, 97, 114, 105, 97, 98, 108, 101, 32, 39,
      100, 97, 116, 101, 116, 105, 109, 101, 39, 32, 119, 104, 101, 114,
      101, 32, 105, 116, 32, 105, 115, 32, 110, 111, 116, 32, 97, 115, 115,
      111, 99, 105, 97, 116, 101, 100, 32, 119, 105, 116, 104, 32, 97, 32,
      118, 97, 108, 117, 101>>

\* Log streams in one describe_log_streams response.
MaxStreams == 2

\* What get_log_events produces for a stream: no event, an exception, one
\* event " A\n", or the two events "m" and "A".
EventOutcomes ==
    { [kind |-> "ok", response |-> [events |-> <<>>]],
      [kind |-> "error", exc |-> Exc("ClientError", AccessDeniedStr)],
      [kind |-> "ok", response |-> [events |->
          << [timestamp |-> DateTime(2024, 3, 1, 9, 0, 0),
              message |-> <<32, 65, 10>>] >>]],
      [kind |-> "ok", response |-> [events |->
          << [timestamp |-> DateTime(2024, 3, 2, 9, 0, 0), message |-> <<109>>],
             [timestamp |-> DateTime(2024, 3, 2, 9, 0, 1), message |-> <<65>>] >>]] }

\* The listings of n streams, with and without 'lastEventTime', and what
\* reading each stream produces.
StreamLists(n) ==
    LET name == <<"2024/03/01/[$LATEST]a", "2024/03/02/[$LATEST]b",
                  "2024/03/03/[$LATEST]c">>
    IN  { [i \in 1..n |->
              [stream |-> IF t[i]
                          THEN [logStreamName |-> name[i],
                                lastEventTime |->
                                    DateTime(2024, 3, i, 9, 0, 1)]
                          ELSE [logStreamName |-> name[i]],
               events |-> e[i]]] :
          t \in [1..n -> BOOLEAN], e \in [1..n -> EventOutcomes] }

\* What get_logs meets: the client cannot be made, describe_log_groups or
\* describe_log_streams raises (also with "An error occurred
\* (ResourceNotFoundException): no such log group"), or the group's streams
\* are listed.
LogsApis ==
    {[kind |-> k, exc |-> e] :
        k \in {"client_error", "groups_error", "streams_error"},
        e \in AwsErrors \cup {Exc("ClientError",
            <<65, 110, 32, 101, 114, 114, 111, 114, 32, 111, 99, 99, 117, 114, 114,
            101, 100, 32, 40, 82, 101, 115, 111, 117, 114, 99, 101, 78, 111, 116,
            70, 111, 117, 110, 100, 69, 120, 99, 101, 112, 116, 105, 111, 110,
            41, 58, 32, 110, 111, 32, 115, 117, 99, 104, 32, 108, 111, 103, 32,
            103, 114, 111, 117, 112>>)}}
    \cup {[kind |-> "ok", streams |-> ss] :
            ss \in UNION {StreamLists(n) : n \in 0..MaxStreams}}

\* Lines 40-69: the streams whose read returns at least one event.
WithEvents(streams) ==
    {i \in 1..Len(streams) :
        /\ streams[i].events.kind = "ok"
        /\ streams[i].events.response.events # <<>>}

\* Lines 72-87, were 'datetime' bound at line 76: the summary, with
\* <<78, 101, 118, 101, 114>>, "Never", for a stream without 'lastEventTime'.
StreamSummary(log_group, streams) ==
    [kind |-> "no_events", log_group |-> log_group, count |-> Len(streams),
     stream_info |->
        [i \in 1..Len(streams) |->
            [name |-> streams[i].stream.logStreamName,
             last_event |->
                IF "lastEventTime" \in DOMAIN streams[i].stream
                THEN DateTimeText(streams[i].stream.lastEventTime)
                ELSE <<78, 101, 118, 101, 114>>]]]

\* Lines 14-87: the try block of get_logs.  Lines 52-63 make one line of
\* each event of the first stream that has any.  'import datetime' at line
\* 58 makes 'datetime' a local name of the whole function, bound only when
\* line 58 has run; line 76 is reached only when it has not.
LogsTry(api, log_group) ==
    IF api.kind = "client_error" THEN Raise(api.exc)
    ELSE IF api.kind = "groups_error" THEN
        Return(IF Contains(api.exc.msg, ResourceNotFoundStr)
               THEN [kind |-> "not_found", log_group |-> log_group]
               ELSE [kind |-> "access_error", text |-> api.exc.msg])
    ELSE IF api.kind = "streams_error" THEN Raise(api.exc)
    ELSE IF api.streams = <<>> THEN
        Return([kind |-> "no_streams", log_group |-> log_group])
    ELSE IF WithEvents(api.streams) # {} THEN
        LET first == CHOOSE i \in WithEvents(api.streams) :
                         \A j \in WithEvents(api.streams) : i <= j
            events == api.streams[first].events.response.events
        IN  Return([kind |-> "events",
                    lines |-> [i \in 1..Len(events) |->
                        [time |-> DateTimeText(events[i].timestamp),
                         message |-> PyStrip(events[i].message)]]])
    ELSE IF \E i \in 1..Len(api.streams) :
                "lastEventTime" \in DOMAIN api.streams[i].stream
    THEN Raise(Exc("UnboundLocalError", UnboundLocalStr))
    ELSE Return(StreamSummary(log_group, api.streams))

\* get_logs(log_group, limit)
get_logs(api, log_group) ==
    LET r == LogsTry(api, log_group)
    IN  IF IsException(r.raised)
        THEN Return([kind |-> "error", text |-> LogsErrorPrefix \o r.raised.msg])
        ELSE r

LogsInit ==
    /\ IdleInit
    /\ StripIdle
    /\ ToolIdle
    /\ Closed(Pages \ {"logs"})
    /\ logsApi \in LogsApis
    /\ logsResult = Pending

GetLogs ==
    /\ ~logsResult.done
    /\ \E log_group \in {"/aws/lambda/your-function-name",
                          "/aws/lambda/cloudops-demo"} :
           logsResult' = Done(get_logs(logsApi, log_group))
    /\ UNCHANGED logsApi
    /\ UNCHANGED <<callVars, stripVars, toolVars, dashVars>>
    /\ UNCHANGED <<ec2Api, s3Api, ec2Result, s3Result, summary,
                   ceApi, costResult>>

SpecLogs == LogsInit /\ [][GetLogs]_vars

----------------------------------------------------------------------------
(* Properties of the log viewer (SpecLogs) *)

\* C30: when the group has at least one stream and no stream yields an
\* event, get_logs returns the summary: the group exists with N streams and
\* no recent events, every stream listed with its last event time, for
\* streams with and without 'lastEventTime'; when some stream has events,
\* it returns the events of the first such stream in listing order.
C30_SummaryOrFirstEvents ==
    (logsResult.done /\ logsApi.kind = "ok" /\ logsApi.streams # <<>>) =>
        LET ss == logsApi.streams
            v == logsResult.value.value
        IN  /\ logsResult.value.raised = NoExc
            /\ WithEvents(ss) = {} =>
                  /\ v.kind = "no_events"
                  /\ v.count = Len(ss)
                  /\ Len(v.stream_info) = Len(ss)
                  /\ \A i \in 1..Len(ss) :
                        /\ v.stream_info[i].name = ss[i].stream.logStreamName
                        /\ v.stream_info[i].last_event =
                              IF "lastEventTime" \in DOMAIN ss[i].stream
                              THEN DateTimeText(ss[i].stream.lastEventTime)
                              ELSE <<78, 101, 118, 101, 114>>
            /\ \A i \in WithEvents(ss) :
                  (\A j \in WithEvents(ss) : i <= j) =>
                      /\ v.kind = "events"
                      /\ Len(v.lines) = Len(ss[i].events.response.events)

----------------------------------------------------------------------------
(* Deploy page of the dashboard (app/dashboard.py, lines 320-472)          *)
(*                                                                         *)
(* Streamlit runs the page's script from the top on every press of a       *)
(* button; st.button is true only for the button whose press started the   *)
(* run, and st.session_state outlives the runs of a browser session.  The  *)
(* script is the caller "c1" of the orchestrator: it blocks in each call   *)
(* until the call returns.  A widget touched while the script is blocked   *)
(* asks for a new run, and the running script is ended at its next st.*    *)
(* command, the one that follows the return of the call.                   *)

\* st.session_state.destroy_confirmed, False while the key is not set.
Confirmed(ss) == "destroy_confirmed" \in DOMAIN ss /\ ss.destroy_confirmed

\* The script stands in front of (or in) the call named pos.
At(pos, ss, cs, a) ==
    [dpc |-> pos, session_state |-> ss, rendered |-> {}, calls |-> cs,
     armed |-> a, rerun |-> FALSE, pressed |-> "none"]

\* The script reached its end (or st.stop()) with these buttons rendered.
Ended(ss, buttons, cs, a) ==
    [dpc |-> "shown", session_state |-> ss, rendered |-> buttons, calls |-> cs,
     armed |-> a, rerun |-> FALSE, pressed |-> "none"]

\* The run ends and the next begins at once: st.rerun() (b = "none"), or
\* the run asked for by the widget b.
Rerun(ss, a, b) ==
    [dpc |-> "status", session_state |-> ss, rendered |-> {}, calls |-> <<>>,
     armed |-> a, rerun |-> TRUE, pressed |-> b]

\* A call of trigger_terraform(a) is about to be made.
Calling(cs, a, arm) ==
    Append(cs, [action |-> a, armed |-> arm, success |-> "pending"])

\* The last call returned.
MarkReturned(cs, ok) ==
    [cs EXCEPT ![Len(cs)].success = IF ok THEN "yes" ELSE "no"]

\* Lines 469-472: the Cancel button, and the end of the script.
CancelColumn(ss, b, cs, a) ==
    IF b = "cancel" THEN Rerun([destroy_confirmed |-> FALSE], FALSE, "none")
    ELSE Ended(ss, {"plan", "deploy", "confirm", "cancel"}, cs, a)

\* Lines 442-472: the Destroy column, up to the call of line 457.
DestroyColumn(ss0, b, cs, a) ==
    LET ss == IF "destroy_confirmed" \in DOMAIN ss0 THEN ss0
              ELSE [destroy_confirmed |-> FALSE]
    IN  IF ~ss.destroy_confirmed
        THEN IF b = "destroy"
             THEN Rerun([destroy_confirmed |-> TRUE], TRUE, "none")
             ELSE Ended(ss, {"plan", "deploy", "destroy"}, cs, a)
        ELSE IF b = "confirm"
             THEN At("destroy", ss, Calling(cs, "destroy", a), FALSE)
             ELSE CancelColumn(ss, b, cs, a)

\* Lines 394-413: the Plan and Deploy columns, up to their first call.
ActionColumns(ss, b, cs, a) ==
    IF b = "plan" THEN At("plan", ss, Calling(cs, "plan", a), a)
    ELSE IF b = "deploy" THEN At("deploy_plan", ss, Calling(cs, "plan", a), a)
    ELSE DestroyColumn(ss, b, cs, a)

\* AfterReturn that goes on to apply whatever the plan returned.
AfterReturn_ApplyRegardless(pos, v, ss, b, cs, a) ==
    IF pos = "status"
    THEN IF v.terraform_available THEN At("state", ss, cs, a)
         ELSE Ended(ss, {}, cs, a)
    ELSE IF pos = "state"
    THEN IF v.success /\ v.resources > 0 THEN At("outputs", ss, cs, a)
         ELSE ActionColumns(ss, b, cs, a)
    ELSE IF pos = "outputs" THEN ActionColumns(ss, b, cs, a)
    ELSE IF pos = "plan" THEN DestroyColumn(ss, b, MarkReturned(cs, v.success), a)
    ELSE IF pos = "deploy_plan"
    THEN At("deploy_apply", ss,
            Calling(MarkReturned(cs, v.success), "apply", a), a)
    ELSE IF pos = "deploy_apply"
    THEN IF v.success THEN Rerun(ss, a, "none")
         ELSE DestroyColumn(ss, b, MarkReturned(cs, v.success), a)
    ELSE IF v.success THEN Rerun([destroy_confirmed |-> FALSE], a, "none")
         ELSE CancelColumn([destroy_confirmed |-> FALSE], b,
                           MarkReturned(cs, v.success), a)

\* The script from the return of the call at pos, with value v, to its next
\* call or its end: lines 324-335 (status), 352-384 (state, outputs),
\* 399-405 (Plan), 413-436 (Deploy), 457-467 (Confirm Destroy).
AfterReturn(pos, v, ss, b, cs, a) ==
    IF pos = "status"
    THEN IF v.terraform_available THEN At("state", ss, cs, a)
         ELSE Ended(ss, {}, cs, a)
    ELSE IF pos = "state"
    THEN IF v.success /\ v.resources > 0 THEN At("outputs", ss, cs, a)
         ELSE ActionColumns(ss, b, cs, a)
    ELSE IF pos = "outputs" THEN ActionColumns(ss, b, cs, a)
    ELSE IF pos = "plan" THEN DestroyColumn(ss, b, MarkReturned(cs, v.success), a)
    ELSE IF pos = "deploy_plan"
    THEN IF ~v.success THEN DestroyColumn(ss, b, MarkReturned(cs, v.success), a)
         ELSE At("deploy_apply", ss,
                 Calling(MarkReturned(cs, v.success), "apply", a), a)
    ELSE IF pos = "deploy_apply"
    THEN IF v.success THEN Rerun(ss, a, "none")
         ELSE DestroyColumn(ss, b, MarkReturned(cs, v.success), a)
    ELSE IF v.success THEN Rerun([destroy_confirmed |-> FALSE], a, "none")
         ELSE CancelColumn([destroy_confirmed |-> FALSE], b,
                           MarkReturned(cs, v.success), a)

\* The page is opened or reloaded (b = "none"), or a button on it is
\* pressed: a run of the script starts, at line 324.
StartRun(b) ==
    /\ dpc \in {"closed", "shown"}
    /\ pc["c1"] = "idle"
    /\ b \in rendered \cup {"none"}
    /\ dpc' = "status"
    /\ pressed' = b
    /\ flagAtStart' = Confirmed(session_state)
    /\ calls' = <<>>
    /\ rerunRequested' = "none"
    /\ UNCHANGED <<session_state, rendered, armed>>
    /\ UNCHANGED <<callVars, stripVars, toolVars>>
    /\ UNCHANGED <<ec2Api, s3Api, ec2Result, s3Result, summary,
                   ceApi, costResult, logsApi, logsResult>>

\* The script makes the call it stands in front of.
DashCall ==
    /\ pc["c1"] = "idle"
    /\ \/ dpc \in {"status", "state", "outputs"} /\ CallDirect("c1", dpc)
       \/ dpc \in {"plan", "deploy_plan"} /\ TriggerTerraform("c1", "plan")
       \/ dpc = "deploy_apply" /\ TriggerTerraform("c1", "apply")
       \/ dpc = "destroy" /\ TriggerTerraform("c1", "destroy")

\* While the script is blocked in a call the user presses a button of the
\* page or touches another widget (the sidebar menu).
Interrupt(b) ==
    /\ pc["c1"] = "running"
    /\ rerunRequested = "none"
    /\ b \in rendered \cup {"other"}
    /\ rerunRequested' = b
    /\ UNCHANGED <<session_state, dpc, pressed, rendered, flagAtStart, armed,
                   calls>>
    /\ UNCHANGED <<callVars, stripVars, toolVars>>
    /\ UNCHANGED <<ec2Api, s3Api, ec2Result, s3Result, summary,
                   ceApi, costResult, logsApi, logsResult>>

\* The call returns and the script goes on to its next call or to its end;
\* when a new run was asked for, the script ends at the st.* command that
\* follows the call and the new run starts.
Resume ==
    /\ pc["c1"] = "done"
    /\ dpc \notin {"closed", "shown"}
    /\ LET k == IF rerunRequested # "none"
                THEN Rerun(session_state, armed,
                           IF rerunRequested = "other"
                           THEN "none" ELSE rerunRequested)
                ELSE AfterReturn(dpc, result["c1"], session_state, pressed,
                                 calls, armed)
       IN  /\ dpc' = k.dpc
           /\ session_state' = k.session_state
           /\ calls' = k.calls
           /\ armed' = k.armed
           /\ pressed' = IF k.rerun THEN k.pressed ELSE pressed
           /\ rendered' = IF k.dpc = "shown" THEN k.rendered ELSE rendered
           /\ flagAtStart' = IF k.rerun THEN Confirmed(k.session_state)
                             ELSE flagAtStart
    /\ rerunRequested' = "none"
    /\ pc' = [pc EXCEPT !["c1"] = "idle"]
    /\ op' = [op EXCEPT !["c1"] = "none"]
    /\ action' = [action EXCEPT !["c1"] = "none"]
    /\ proc' = [proc EXCEPT !["c1"] = "none"]
    /\ argv' = [argv EXCEPT !["c1"] = <<>>]
    /\ runs' = [runs EXCEPT !["c1"] = 0]
    /\ outcome' = [outcome EXCEPT !["c1"] = NoOutcome]
    /\ result' = [result EXCEPT !["c1"] = NoResult]
    /\ raised' = [raised EXCEPT !["c1"] = NoExc]
    /\ UNCHANGED <<stripVars, toolVars>>
    /\ UNCHANGED <<ec2Api, s3Api, ec2Result, s3Result, summary,
                   ceApi, costResult, logsApi, logsResult>>

DashNext ==
    \/ \E b \in {"none", "plan", "deploy", "destroy", "confirm", "cancel"} :
          StartRun(b)
    \/ DashCall
    \/ ProcessExit("c1")
    \/ ProcessTimeout("c1")
    \/ \E b \in {"other", "plan", "deploy", "destroy", "confirm", "cancel"} :
          Interrupt(b)
    \/ Resume

SpecDash == Init /\ [][DashNext]_vars

----------------------------------------------------------------------------
(* Properties of the Deploy page (SpecDash) *)

\* trigger_terraform(a) is being executed for the script.
InCall(a) == pc["c1"] # "idle" /\ action["c1"] = a

\* C26: trigger_terraform("destroy") is invoked only in a run that started
\* with destroy_confirmed true and by the press of Confirm; every destroy
\* follows its own press of Destroy; and once a destroy was invoked, or
\* Cancel pressed, destroy_confirmed is false again until Destroy is pressed
\* anew, so one confirmation never authorizes two destroys.
C26_DestroyNeedsTwoActions ==
    /\ (dpc = "destroy" \/ InCall("destroy")) =>
          /\ dpc = "destroy"
          /\ flagAtStart
          /\ pressed = "confirm"
    /\ \A i \in 1..Len(calls) :
          calls[i].action = "destroy" => calls[i].armed
    /\ (dpc # "destroy" /\ Confirmed(session_state)) => armed

\* C27: trigger_terraform("apply") is invoked only right after a
\* trigger_terraform("plan") of the same press of Deploy that returned
\* success; when that plan fails, apply is not invoked in that run.
C27_ApplyOnlyAfterGoodPlan ==
    /\ \A i \in 1..Len(calls) :
          calls[i].action = "apply" =>
              /\ pressed = "deploy"
              /\ i = 2
              /\ calls[1].action = "plan"
              /\ calls[1].success = "yes"
    /\ InCall("apply") =>
          /\ dpc = "deploy_apply"
          /\ Len(calls) = 2
          /\ calls[2].action = "apply"
    /\ (calls # <<>> /\ calls[1].success = "no") => Len(calls) = 1

\* The plan of a press of Deploy succeeded and its apply is running.
C27_Witness ==
    /\ dpc = "deploy_apply"
    /\ pc["c1"] = "running"
    /\ op["c1"] = "apply"
    /\ calls[1].success = "yes"

====
